---------------------------- MODULE Spec2Model ----------------------------
(***************************************************************************)
(* A model of lib/sqlalchemy/sql/sqltypes.py: the expression adaptation    *)
(* engine, the schema-bound type coordinator (SchemaType, Boolean, Enum)   *)
(* the Enum value lookups, the bind / result processors of Boolean,        *)
(* Numeric and JSON, literal type resolution, the index operations of      *)
(* ARRAY and JSON expressions, the life of one type instance, and the      *)
(* first uses of a processor by concurrent callers.                        *)
(*                                                                         *)
(* The module holds one state machine per component.  Every component has  *)
(* its own specification (SpecAdapt, SpecSchema, SpecEnum, SpecProc,       *)
(* SpecIndex, SpecLife, SpecCache); the variables of the other components  *)
(* stay at their initial values.                                           *)
(***************************************************************************)
EXTENDS Integers, Sequences, FiniteSets, TLC

VARIABLES
    expr,        \* the binary expression last built: operands, operator, result
    types,       \* schema component: instance id -> configuration of the type
    column,      \* schema component: the column, its type and its attach hooks
    listeners,   \* schema component: the event registrations, in order
    constraints, \* schema component: CHECK constraints attached to the table
    fired,       \* schema component: outcome of the lifecycle event last fired
    phase,       \* schema component: new / constructed / column / table
    enum,        \* enum component: the Enum under construction or built
    outcome,     \* enum component: the last processor call and what it gave
    proc,        \* processor component: the last processor made or called
    chain,       \* index component: an ARRAY type and the indexing done on it
    jx,          \* index component: JSON expressions and the last cast accessor
    life,        \* life component: one type instance and what was done with it
    cache        \* cache component: the processor cache of a backend, its callers

vars == <<expr, types, column, listeners, constraints, fired, phase, enum, outcome,
          proc, chain, jx, life, cache>>

schemaVars == <<types, column, listeners, constraints, fired, phase>>
enumVars == <<enum, outcome>>
procVars == <<proc>>
indexVars == <<chain, jx>>
lifeVars == <<life>>
cacheVars == <<cache>>

(***************************************************************************)
(* Bounds of the model.                                                    *)
(***************************************************************************)
\* Type configurations 0..MaxCfg per class; 0 is the default configuration.
MaxCfg == 1

-----------------------------------------------------------------------------
(***************************************************************************)
(*                    EXPRESSION ADAPTATION ENGINE                         *)
(***************************************************************************)

\* operators of sqlalchemy.sql.operators that reach _adapt_expression
Operators == {"add", "sub", "mul", "truediv", "floordiv", "mod", "eq", "concat_op"}

\* Classes with a lookup table (HasExpressionLookup in their bases).
IntegerClasses == {"Integer", "SmallInteger", "BigInteger", "INTEGER"}
NumericClasses == {"Numeric", "Float", "Double", "DECIMAL"}
DateTimeClasses == {"DateTime", "TIMESTAMP"}
DateClasses == {"Date", "DATE"}
TimeClasses == {"Time", "TIME"}
IntervalClasses == {"Interval"}
LookupClasses ==
    IntegerClasses \cup NumericClasses \cup DateTimeClasses \cup DateClasses
        \cup TimeClasses \cup IntervalClasses

\* Classes whose comparator is (a subclass of) Concatenable.Comparator.
StringClasses == {"String", "Text", "Unicode", "VARCHAR"}
ConcatenableClasses == StringClasses \cup {"Enum", "JSON", "ARRAY"}

\* Classes with the plain TypeEngine.Comparator.
PlainClasses == {"Boolean", "LargeBinary"}

Classes == LookupClasses \cup ConcatenableClasses \cup PlainClasses \cup {"NullType"}

\* _type_affinity: the family a class belongs to.
TypeAffinity(cls) ==
    CASE cls \in IntegerClasses -> "Integer"
      [] cls \in NumericClasses -> "Numeric"
      [] cls \in DateTimeClasses -> "DateTime"
      [] cls \in DateClasses -> "Date"
      [] cls \in TimeClasses -> "Time"
      [] cls \in StringClasses \cup {"Enum"} -> "String"
      [] cls = "LargeBinary" -> "_Binary"
      [] OTHER -> cls

\* _AbstractInterval._type_affinity
IntervalTypeAffinity == "Interval"

Affinity(cls) == IF cls \in IntervalClasses THEN IntervalTypeAffinity ELSE TypeAffinity(cls)

\* A type instance: its class, its configuration (0: default arguments) and its
\* identity (1: the left operand's type, 2: the right operand's, 0: an object
\* created during adaptation).
TypeInst(cls, cfg, id) == [cls |-> cls, cfg |-> cfg, id |-> id]

\* to_instance(): a class is instantiated with default arguments, an
\* instance is returned as it is
ToInstance(lookup) ==
    IF lookup.k = "cls" THEN TypeInst(lookup.cls, 0, 0) ELSE lookup.inst

ClsRef(cls) == [k |-> "cls", cls |-> cls, inst |-> TypeInst(cls, 0, 0)]
InstRef(t) == [k |-> "inst", cls |-> t.cls, inst |-> t]

\* x is y, for a table entry or default x and a class y
IsClass(lookup, cls) == lookup.k = "cls" /\ lookup.cls = cls

\* A dict as a function on its keys.
DictGet(d, key, default) == IF key \in DOMAIN d THEN d[key] ELSE default

\* A dict literal {k1: v1, ...} is written k1 :> v1 @@ ...
EmptyDict == << >>

IntegerAdaptations(self) ==
    "add" :> ("Date" :> "Date" @@ "Integer" :> self.cls @@ "Numeric" :> "Numeric")
    @@ "mul" :> ("Interval" :> "Interval" @@ "Integer" :> self.cls @@ "Numeric" :> "Numeric")
    @@ "truediv" :> ("Integer" :> "Numeric" @@ "Numeric" :> "Numeric")
    @@ "floordiv" :> ("Integer" :> self.cls @@ "Numeric" :> "Numeric")
    @@ "sub" :> ("Integer" :> self.cls @@ "Numeric" :> "Numeric")

NumericAdaptations(self) ==
    "mul" :> ("Interval" :> "Interval" @@ "Numeric" :> self.cls @@ "Integer" :> self.cls)
    @@ "truediv" :> ("Numeric" :> self.cls @@ "Integer" :> self.cls)
    @@ "add" :> ("Numeric" :> self.cls @@ "Integer" :> self.cls)
    @@ "sub" :> ("Numeric" :> self.cls @@ "Integer" :> self.cls)

DateTimeAdaptations(self) ==
    "add" :> ("Interval" :> self.cls)
    @@ "sub" :> ("Interval" :> self.cls @@ "DateTime" :> "Interval")

\* the mutant of DateAdaptations in which date - date is a date
DateAdaptationsDateMinusDate(self) ==
    "add" :> ("Integer" :> self.cls @@ "Interval" :> "DateTime" @@ "Time" :> "DateTime")
    @@ "sub" :> ("Integer" :> self.cls @@ "Date" :> self.cls
                 @@ "Interval" :> "DateTime" @@ "DateTime" :> "Interval")

DateAdaptations(self) ==
    "add" :> ("Integer" :> self.cls @@ "Interval" :> "DateTime" @@ "Time" :> "DateTime")
    @@ "sub" :> ("Integer" :> self.cls @@ "Date" :> "Integer"
                 @@ "Interval" :> "DateTime" @@ "DateTime" :> "Interval")

TimeAdaptations(self) ==
    "add" :> ("Date" :> "DateTime" @@ "Interval" :> self.cls)
    @@ "sub" :> ("Time" :> "Interval" @@ "Interval" :> self.cls)

IntervalAdaptations(self) ==
    "add" :> ("Date" :> "DateTime" @@ "Interval" :> self.cls
              @@ "DateTime" :> "DateTime" @@ "Time" :> "Time")
    @@ "sub" :> ("Interval" :> self.cls)
    @@ "mul" :> ("Numeric" :> self.cls)
    @@ "truediv" :> ("Numeric" :> self.cls)

\* self.type._expression_adaptations
ExpressionAdaptations(self) ==
    CASE self.cls \in IntegerClasses -> IntegerAdaptations(self)
      [] self.cls \in NumericClasses -> NumericAdaptations(self)
      [] self.cls \in DateTimeClasses -> DateTimeAdaptations(self)
      [] self.cls \in DateClasses -> DateAdaptations(self)
      [] self.cls \in TimeClasses -> TimeAdaptations(self)
      [] self.cls \in IntervalClasses -> IntervalAdaptations(self)

\* the mutant of LookupAdaptExpression that tests the left affinity first
LookupAdaptExpressionLeftFirst(op, self, other) ==
    LET othertype == Affinity(other.cls)
        byOp == DictGet(ExpressionAdaptations(self), op, EmptyDict)
        lookup == IF othertype \in DOMAIN byOp THEN ClsRef(byOp[othertype]) ELSE InstRef(self)
    IN  IF IsClass(lookup, Affinity(self.cls)) THEN <<op, self>>
        ELSE IF IsClass(lookup, othertype) THEN <<op, other>>
        ELSE <<op, ToInstance(lookup)>>

\* HasExpressionLookup.Comparator._adapt_expression
LookupAdaptExpression(op, self, other) ==
    LET othertype == Affinity(other.cls)
        byOp == DictGet(ExpressionAdaptations(self), op, EmptyDict)
        lookup == IF othertype \in DOMAIN byOp THEN ClsRef(byOp[othertype]) ELSE InstRef(self)
    IN  IF IsClass(lookup, othertype) THEN <<op, other>>
        ELSE IF IsClass(lookup, Affinity(self.cls)) THEN <<op, self>>
        ELSE <<op, ToInstance(lookup)>>

\* TypeEngine.Comparator._adapt_expression, the base of the comparators
DefaultAdaptExpression(op, self, other) == <<op, self>>

\* isinstance(other_comparator, (Concatenable.Comparator, NullType.Comparator))
IsConcatenableOrNull(other) == other.cls \in ConcatenableClasses \cup {"NullType"}

\* the mutant of ConcatenableAdaptExpression that concatenates with any
\* right operand
ConcatenableAdaptExpressionAnyRight(op, self, other) ==
    IF op = "add" THEN <<"concat_op", self>> ELSE DefaultAdaptExpression(op, self, other)

\* Concatenable.Comparator._adapt_expression
ConcatenableAdaptExpression(op, self, other) ==
    IF op = "add" /\ IsConcatenableOrNull(other)
    THEN <<"concat_op", self>>
    ELSE DefaultAdaptExpression(op, self, other)

\* Enum.Comparator._adapt_expression: a concatenation of an Enum is a String
\* of the Enum's length
EnumAdaptExpression(op, self, other) ==
    LET r == ConcatenableAdaptExpression(op, self, other)
    IN  IF r[1] = "concat_op" THEN <<r[1], TypeInst("String", self.cfg, 0)>> ELSE r

\* operators.is_commutative
IsCommutative(op) == op \in {"add", "mul", "eq"}

\* the comparator's _adapt_expression by the class of the left operand
RECURSIVE AdaptExpression(_, _, _)
AdaptExpression(op, self, other) ==
    CASE self.cls \in LookupClasses -> LookupAdaptExpression(op, self, other)
      [] self.cls = "Enum" -> EnumAdaptExpression(op, self, other)
      [] self.cls \in ConcatenableClasses \ {"Enum"} -> ConcatenableAdaptExpression(op, self, other)
      [] self.cls = "NullType" ->
            \* NullType.Comparator._adapt_expression
            IF other.cls = "NullType" \/ ~IsCommutative(op)
            THEN <<op, self>>
            ELSE AdaptExpression(op, other, self)
      [] OTHER -> DefaultAdaptExpression(op, self, other)

NoExpr == [op |-> "none", left |-> TypeInst("NullType", 0, 0), right |-> TypeInst("NullType", 0, 0),
           resOp |-> "none", resType |-> TypeInst("NullType", 0, 0)]

\* left.comparator._adapt_expression(op, right.comparator) for a new binary
\* expression
BinaryOperate(op, lcls, lcfg, rcls, rcfg) ==
    LET left == TypeInst(lcls, lcfg, 1)
        right == TypeInst(rcls, rcfg, 2)
        r == AdaptExpression(op, left, right)
    IN  /\ expr' = [op |-> op, left |-> left, right |-> right, resOp |-> r[1], resType |-> r[2]]
        /\ UNCHANGED <<schemaVars, enumVars, procVars, indexVars, lifeVars, cacheVars>>


-----------------------------------------------------------------------------
(***************************************************************************)
(*                              ENUM TYPE                                  *)
(***************************************************************************)

\* Longest list of labels, or of names of an enumeration class, tried.
MaxLabels == 3
\* Largest length argument tried.
MaxLengthArg == 6

\* Host and database values are pairs <<kind, payload>>.
Str(s) == <<"str", s>>
Obj(n) == <<"obj", n>>
None == <<"none", "">>
OtherValue == <<"int", "5">>

Labels == {"red", "green", "blue"}
UnknownLabel == "purple"

\* the value of the member of an enumeration class declared under a name
ValueOf(n) == CASE n = "red" -> "r" [] n = "green" -> "gr" [] n = "blue" -> "b" [] OTHER -> n

Min(a, b) == IF a < b THEN a ELSE b
SetMax(S) == CHOOSE x \in S : \A y \in S : y <= x

SeqsUpTo(S, n) == UNION {[1..k -> S] : k \in 0..n}
IsDistinct(s) == \A i, j \in DOMAIN s : s[i] = s[j] => i = j

\* reversed(), zip(), dict(pairs), dict.update(pairs)
Reversed(s) == [i \in 1..Len(s) |-> s[Len(s) + 1 - i]]
Zip(a, b) == [i \in 1..Min(Len(a), Len(b)) |-> <<a[i], b[i]>>]
Keys(ps) == {ps[i][1] : i \in DOMAIN ps}
DictOfPairs(ps) ==
    [k \in Keys(ps) |-> ps[SetMax({i \in DOMAIN ps : ps[i][1] = k})][2]]
DictUpdate(d, ps) ==
    [k \in DOMAIN d \cup Keys(ps) |-> IF k \in Keys(ps) THEN DictOfPairs(ps)[k] ELSE d[k]]

\* An enumeration class: its __members__ in declaration order, each name with
\* the member it is bound to (canon: the name the member was first declared
\* under, i.e. member.name); an alias is a name whose member was declared before.
IsEnumClass(ms) ==
    /\ Len(ms) >= 1
    /\ IsDistinct([i \in DOMAIN ms |-> ms[i].name])
    /\ \A i \in DOMAIN ms :
          \/ ms[i].canon = ms[i].name
          \/ \E j \in 1..(i - 1) : ms[j].name = ms[i].canon /\ ms[j].canon = ms[j].name

EnumClasses ==
    {ms \in SeqsUpTo([name : Labels, canon : Labels], MaxLabels) : IsEnumClass(ms)}

\* iterating an enumeration class: its members without the aliases
ClassIter(ms) == SelectSeq(ms, LAMBDA m : m.canon = m.name)

\* the values_callable of the documentation: lambda x: [e.value for e in x]
MemberValues(ms) == [i \in DOMAIN ClassIter(ms) |-> Str(ValueOf(ClassIter(ms)[i].name))]

\* Enum._parse_into_values: <<values, objects>>
ParseIntoValues(arg, omit_aliases, values_callable) ==
    IF arg.kind = "class"
    THEN LET members == IF omit_aliases THEN ClassIter(arg.members) ELSE arg.members
             values == IF values_callable
                       THEN MemberValues(arg.members)
                       ELSE [i \in DOMAIN members |-> Str(members[i].name)]
             objects == [i \in DOMAIN members |-> Obj(members[i].canon)]
         IN  <<values, objects>>
    ELSE <<arg.labels, arg.labels>>

\* the mutant of SetupForValues that reverses the objects and not the values
SetupForValuesHalfReversed(values, objects) ==
    LET valid0 == DictOfPairs(Zip(Reversed(objects), values))
        object_lookup == DictOfPairs(Zip(values, objects))
        ok == \A i \in DOMAIN values : object_lookup[values[i]] \in DOMAIN valid0
        upd == [i \in DOMAIN values |-> <<values[i], valid0[object_lookup[values[i]]]>>]
    IN  IF ok
        THEN [ok |-> TRUE, enums |-> values,
              valid_lookup |-> DictUpdate(valid0, upd), object_lookup |-> object_lookup]
        ELSE [ok |-> FALSE, enums |-> values,
              valid_lookup |-> valid0, object_lookup |-> object_lookup]

\* the mutant of SetupForValues that pairs objects and values in declaration
\* order, so that the last name of a member wins
SetupForValuesLastWins(values, objects) ==
    LET valid0 == DictOfPairs(Zip(objects, values))
        object_lookup == DictOfPairs(Zip(values, objects))
        ok == \A i \in DOMAIN values : object_lookup[values[i]] \in DOMAIN valid0
        upd == [i \in DOMAIN values |-> <<values[i], valid0[object_lookup[values[i]]]>>]
    IN  IF ok
        THEN [ok |-> TRUE, enums |-> values,
              valid_lookup |-> DictUpdate(valid0, upd), object_lookup |-> object_lookup]
        ELSE [ok |-> FALSE, enums |-> values,
              valid_lookup |-> valid0, object_lookup |-> object_lookup]

\* Enum._setup_for_values: the two lookups (ok is FALSE when the update of
\* _valid_lookup looks up a missing key)
SetupForValues(values, objects) ==
    LET valid0 == DictOfPairs(Zip(Reversed(objects), Reversed(values)))
        object_lookup == DictOfPairs(Zip(values, objects))
        ok == \A i \in DOMAIN values : object_lookup[values[i]] \in DOMAIN valid0
        upd == [i \in DOMAIN values |-> <<values[i], valid0[object_lookup[values[i]]]>>]
    IN  IF ok
        THEN [ok |-> TRUE, enums |-> values,
              valid_lookup |-> DictUpdate(valid0, upd), object_lookup |-> object_lookup]
        ELSE [ok |-> FALSE, enums |-> values,
              valid_lookup |-> valid0, object_lookup |-> object_lookup]

StrLen(v) == Len(v[2])

NoArg == -1

\* the mutant of EnumLength that checks the length also for a native enum
EnumLengthAlwaysChecked(enums, length_arg, native_enum, disable_warnings) ==
    LET length == IF Len(enums) > 0 THEN SetMax({StrLen(enums[i]) : i \in DOMAIN enums}) ELSE 0
    IN  IF length_arg /= NoArg
        THEN IF ~disable_warnings /\ length_arg < length
             THEN [ok |-> FALSE, length |-> length, default_length |-> length]
             ELSE [ok |-> TRUE, length |-> length_arg, default_length |-> length]
        ELSE [ok |-> TRUE, length |-> length, default_length |-> length]

\* Enum._enum_init from the computation of the default length on: the
\* effective length, or the failure
EnumLength(enums, length_arg, native_enum, disable_warnings) ==
    LET length == IF Len(enums) > 0 THEN SetMax({StrLen(enums[i]) : i \in DOMAIN enums}) ELSE 0
    IN  IF length_arg /= NoArg
        THEN IF native_enum
             THEN [ok |-> TRUE, length |-> length, default_length |-> length]
             ELSE IF ~disable_warnings /\ length_arg < length
                  THEN [ok |-> FALSE, length |-> length, default_length |-> length]
                  ELSE [ok |-> TRUE, length |-> length_arg, default_length |-> length]
        ELSE [ok |-> TRUE, length |-> length, default_length |-> length]

\* self._valid_lookup[None] = self._object_lookup[None] = None
WithNone(d) == [k \in DOMAIN d \cup {None} |-> IF k = None THEN None ELSE d[k]]

NoEnum == [state |-> "none"]

\* the Enum a call of the constructor leaves, or the error it raises
EnumInit(arg, kw) ==
    LET vo == ParseIntoValues(arg, kw.omit_aliases, kw.values_callable)
        su == SetupForValues(vo[1], vo[2])
        ln == EnumLength(su.enums, kw.length, kw.native_enum, kw.disable_warnings)
    IN  IF ~su.ok THEN [state |-> "KeyError", arg |-> arg, kw |-> kw]
        ELSE IF ~ln.ok THEN [state |-> "ValueError", arg |-> arg, kw |-> kw]
        ELSE [state |-> "built", arg |-> arg, kw |-> kw,
              enums |-> su.enums,
              valid_lookup |-> WithNone(su.valid_lookup),
              object_lookup |-> WithNone(su.object_lookup),
              validate_strings |-> kw.validate_strings,
              native_enum |-> kw.native_enum,
              default_length |-> ln.default_length,
              length |-> ln.length,
              name |-> IF arg.kind = "class" /\ kw.name = "None" THEN "enumclass" ELSE kw.name]

\* the LookupError of _db_value_for_elem and _object_value_for_elem
LookupError(self, elem) ==
    [ok |-> FALSE, error |-> "LookupError", value |-> elem, name |-> self.name, values |-> self.enums]
Returned(v) == [ok |-> TRUE, error |-> "", value |-> v, name |-> "", values |-> <<>>]

\* the mutant of DbValueForElem that never validates strings
DbValueForElemLenient(self, elem) ==
    IF elem \in DOMAIN self.valid_lookup
    THEN Returned(self.valid_lookup[elem])
    ELSE IF elem[1] = "str" THEN Returned(elem) ELSE LookupError(self, elem)

\* Enum._db_value_for_elem
DbValueForElem(self, elem) ==
    IF elem \in DOMAIN self.valid_lookup
    THEN Returned(self.valid_lookup[elem])
    ELSE IF ~self.validate_strings /\ elem[1] = "str"
         THEN Returned(elem)
         ELSE LookupError(self, elem)

\* the mutant of ObjectValueForElem that passes unknown strings through
\* unless validate_strings is set
ObjectValueForElemLenient(self, elem) ==
    IF elem \in DOMAIN self.object_lookup
    THEN Returned(self.object_lookup[elem])
    ELSE IF ~self.validate_strings /\ elem[1] = "str"
         THEN Returned(elem)
         ELSE LookupError(self, elem)

\* Enum._object_value_for_elem
ObjectValueForElem(self, elem) ==
    IF elem \in DOMAIN self.object_lookup
    THEN Returned(self.object_lookup[elem])
    ELSE LookupError(self, elem)

\* Enum.bind_processor(dialect)(value); the parent processor,
\* String.bind_processor(dialect), is None
EnumBindProcess(self, value) == DbValueForElem(self, value)

\* Enum.result_processor(dialect, coltype)(value); the parent processor,
\* String.result_processor(dialect, coltype), is None
EnumResultProcess(self, value) == ObjectValueForElem(self, value)

EnumArgs ==
    [kind : {"strings"}, labels : SeqsUpTo({Str(l) : l \in Labels}, MaxLabels), members : {<<>>}]
        \cup [kind : {"class"}, labels : {<<>>}, members : EnumClasses]

LengthArgs == {NoArg, 0, 4, MaxLengthArg}

EnumKw ==
    [omit_aliases : BOOLEAN, values_callable : BOOLEAN, length : LengthArgs,
     native_enum : BOOLEAN, disable_warnings : BOOLEAN, validate_strings : BOOLEAN,
     name : {"None", "color"}]

HostValues ==
    {Str(l) : l \in Labels \cup {UnknownLabel}} \cup {Obj(l) : l \in Labels}
        \cup {None, OtherValue}
DbValues ==
    {Str(l) : l \in Labels \cup {UnknownLabel}} \cup {Str(ValueOf(l)) : l \in Labels}
        \cup {None, OtherValue}

NoOutcome == [op |-> "none", arg |-> None, res |-> Returned(None), back |-> Returned(None)]


-----------------------------------------------------------------------------
(***************************************************************************)
(*                   SCHEMA-BOUND TYPE COORDINATOR                         *)
(***************************************************************************)

\* Number of schema-bound type instances constructed for one column.
MaxTypes == 2

TypeIds == 1..MaxTypes

\* The backends: name and capability flags.
Dialects ==
    { [name |-> "postgresql", supports_native_boolean |-> TRUE,
       non_native_boolean_check_constraint |-> TRUE, supports_native_enum |-> TRUE],
      [name |-> "sqlite", supports_native_boolean |-> FALSE,
       non_native_boolean_check_constraint |-> TRUE, supports_native_enum |-> FALSE],
      [name |-> "mssql", supports_native_boolean |-> FALSE,
       non_native_boolean_check_constraint |-> FALSE, supports_native_enum |-> FALSE],
      [name |-> "oracle", supports_native_boolean |-> FALSE,
       non_native_boolean_check_constraint |-> TRUE, supports_native_enum |-> FALSE] }

\* the backend names given to with_variant(), in the order given
VariantNames == <<"sqlite", "postgresql">>

\* A type object held by a column or a variant mapping: a schema-bound type
\* instance (id), or an ARRAY (never a schema-bound instance itself, id 0)
\* whose item_type is one, or is a type that is not schema-bound (item 0).
Plain(i) == [isArray |-> FALSE, id |-> i, item |-> 0]
ArrayOf(i) == [isArray |-> TRUE, id |-> 0, item |-> i]
Entries == {Plain(i) : i \in TypeIds} \cup {ArrayOf(i) : i \in TypeIds \cup {0}}

\* isinstance(item_type, SchemaEventTarget)
IsSchemaEventTarget(i) == i \in TypeIds

\* the schema-bound instance an entry attaches to the column
InstanceOf(e) == IF e.isArray THEN e.item ELSE e.id

\* the variant_mapping a callback closes over: None, or a dict
NoMapping == [isNone |-> TRUE, map |-> EmptyDict]
Mapping(m) == [isNone |-> FALSE, map |-> m]
\* not variant_mapping
Falsy(vm) == vm.isNone \/ DOMAIN vm.map = {}

\* SchemaType._variant_mapping_for_set_table
VariantMappingForSetTable(col) ==
    IF DOMAIN col.variants /= {}
    THEN Mapping([k \in DOMAIN col.variants \cup {"_default"} |->
                    IF k = "_default" THEN col.default ELSE col.variants[k]])
    ELSE NoMapping

\* _we_are_the_impl(typ) inside SchemaType._is_impl_for_variant
WeAreTheImpl(self, typ) == typ.id = self \/ (typ.isArray /\ typ.item = self)

\* the mutant of IsImplForVariant that forgets the ARRAY item type
IsImplForVariantNoArray(self, dialect, vm) ==
    IF Falsy(vm) THEN "True"
    ELSE IF dialect.name \in DOMAIN vm.map /\ vm.map[dialect.name].id = self THEN "True"
    ELSE IF dialect.name \notin DOMAIN vm.map
         THEN (IF vm.map["_default"].id = self THEN "True" ELSE "False")
    ELSE "None"

\* SchemaType._is_impl_for_variant: the value returned (None when the
\* function falls off its end)
IsImplForVariant(self, dialect, vm) ==
    IF Falsy(vm) THEN "True"
    ELSE IF dialect.name \in DOMAIN vm.map /\ WeAreTheImpl(self, vm.map[dialect.name]) THEN "True"
    ELSE IF dialect.name \notin DOMAIN vm.map
         THEN (IF WeAreTheImpl(self, vm.map["_default"]) THEN "True" ELSE "False")
    ELSE "None"

\* truth value of a returned True / False / None
Truthy(v) == v = "True"

\* SchemaType.__init__: the listeners a new instance registers on its MetaData
InitListeners(id, cfg) ==
    IF cfg.cls = "Enum" /\ cfg.create_events /\ cfg.metadata
    THEN << [target |-> "metadata", event |-> "before_create", fn |-> "_on_metadata_create",
             self |-> id, origin |-> "init", vm |-> NoMapping],
            [target |-> "metadata", event |-> "after_drop", fn |-> "_on_metadata_drop",
             self |-> id, origin |-> "init", vm |-> NoMapping] >>
    ELSE << >>

\* the mutant of SchemaTypeSetTable that registers on the metadata also when
\* the type has a metadata of its own
SchemaTypeSetTableBoth(id, cfg, col) ==
    IF ~cfg.create_events THEN << >>
    ELSE LET vm == VariantMappingForSetTable(col)
         IN  << [target |-> "table", event |-> "before_create", fn |-> "_on_table_create",
                 self |-> id, origin |-> "set_table", vm |-> vm],
                [target |-> "table", event |-> "after_drop", fn |-> "_on_table_drop",
                 self |-> id, origin |-> "set_table", vm |-> vm],
                [target |-> "metadata", event |-> "before_create", fn |-> "_on_metadata_create",
                 self |-> id, origin |-> "set_table", vm |-> vm],
                [target |-> "metadata", event |-> "after_drop", fn |-> "_on_metadata_drop",
                 self |-> id, origin |-> "set_table", vm |-> vm] >>

\* SchemaType._set_table: the listeners registered at table attachment
SchemaTypeSetTable(id, cfg, col) ==
    IF ~cfg.create_events THEN << >>
    ELSE LET vm == VariantMappingForSetTable(col)
             onTable ==
                << [target |-> "table", event |-> "before_create", fn |-> "_on_table_create",
                    self |-> id, origin |-> "set_table", vm |-> vm],
                   [target |-> "table", event |-> "after_drop", fn |-> "_on_table_drop",
                    self |-> id, origin |-> "set_table", vm |-> vm] >>
             onMetadata ==
                << [target |-> "metadata", event |-> "before_create", fn |-> "_on_metadata_create",
                    self |-> id, origin |-> "set_table", vm |-> vm],
                   [target |-> "metadata", event |-> "after_drop", fn |-> "_on_metadata_drop",
                    self |-> id, origin |-> "set_table", vm |-> vm] >>
         IN  IF ~cfg.metadata THEN onTable \o onMetadata ELSE onTable

\* name=None, and the name _NONE_NAME of a constraint without a name
NameNone == "None"
NONE_NAME == "_NONE_NAME"

\* the mutant of CheckConstraintOf that attaches the constraint always
CheckConstraintOfAlways(id, cfg, col) ==
    << [self |-> id, cls |-> cfg.cls, vm |-> VariantMappingForSetTable(col),
        name |-> IF cfg.name = NameNone THEN NONE_NAME ELSE cfg.name] >>

\* the CheckConstraint of Boolean._set_table and of Enum._set_table
CheckConstraintOf(id, cfg, col) ==
    IF ~cfg.create_constraint THEN << >>
    ELSE << [self |-> id, cls |-> cfg.cls, vm |-> VariantMappingForSetTable(col),
             name |-> IF cfg.name = NameNone THEN NONE_NAME ELSE cfg.name] >>

\* Boolean._set_table / Enum._set_table: <<new listeners, new constraints>>
SetTable(id, cfg, col) ==
    IF cfg.cls = "Boolean"
    THEN << << >>, CheckConstraintOf(id, cfg, col) >>
    ELSE << SchemaTypeSetTable(id, cfg, col), CheckConstraintOf(id, cfg, col) >>

\* the hooks of Column._on_table_attach run in the order registered
RECURSIVE RunHooks(_, _, _)
RunHooks(hooks, tys, col) ==
    IF hooks = << >> THEN << << >>, << >> >>
    ELSE LET h == SetTable(Head(hooks), tys[Head(hooks)], col)
             rest == RunHooks(Tail(hooks), tys, col)
         IN  << h[1] \o rest[1], h[2] \o rest[2] >>

\* SchemaType._set_parent: column._on_table_attach(self._set_table), one hook
SchemaTypeSetParent(id) == << id >>

\* the mutant of ArraySetParent that forwards whatever outer is
ArraySetParentAlways(e, outer) ==
    IF IsSchemaEventTarget(e.item) THEN SchemaTypeSetParent(e.item) ELSE << >>

\* ARRAY._set_parent(column, outer)
ArraySetParent(e, outer) ==
    IF ~outer /\ IsSchemaEventTarget(e.item) THEN SchemaTypeSetParent(e.item) ELSE << >>

\* SchemaEventTarget._set_parent_with_dispatch(parent, **kw): the type's own
\* _set_parent(parent, **kw), between the two attach events
SetParentWithDispatch(e, outer) ==
    IF e.isArray THEN ArraySetParent(e, outer) ELSE SchemaTypeSetParent(e.id)

\* ARRAY._set_parent_with_dispatch
ArraySetParentWithDispatch(e) ==
    SetParentWithDispatch(e, TRUE)
        \o (IF IsSchemaEventTarget(e.item)
            THEN SetParentWithDispatch(Plain(e.item), FALSE) ELSE << >>)

\* type._set_parent_with_dispatch(column): the hooks the type object
\* registers with the column
SetParent(e) ==
    IF e.isArray THEN ArraySetParentWithDispatch(e) ELSE SetParentWithDispatch(e, FALSE)

\* Column.__init__: _set_parent_with_dispatch for the type and then for every
\* value of its _variant_mapping
ColumnHooks(default, variants) ==
    LET names == SelectSeq(VariantNames, LAMBDA n : n \in DOMAIN variants)
        RECURSIVE Each(_)
        Each(ns) == IF ns = << >> THEN << >> ELSE SetParent(variants[Head(ns)]) \o Each(Tail(ns))
    IN  SetParent(default) \o Each(names)

\* TypeEngine.with_variant: the type with variants is a copy, so a variant is
\* never the schema-bound instance that is the column's own type
ValidColumnType(default, variants) ==
    (DOMAIN variants /= {} /\ ~default.isArray) =>
        \A k \in DOMAIN variants : InstanceOf(variants[k]) /= default.id

\* _should_create_constraint of Boolean and of Enum
ShouldCreateConstraint(c, cfg, dialect) ==
    IF ~Truthy(IsImplForVariant(c.self, dialect, c.vm)) THEN FALSE
    ELSE IF c.cls = "Boolean"
         THEN ~dialect.supports_native_boolean /\ dialect.non_native_boolean_check_constraint
         ELSE ~cfg.native_enum \/ ~dialect.supports_native_enum

\* self.dialect_impl(dialect) is a SchemaType of another class
HasNativeImpl(cfg, dialect) ==
    cfg.cls = "Enum" /\ cfg.native_enum /\ dialect.supports_native_enum

\* the mutant of OnEvent without the guard on _is_impl_for_variant
OnEventUnguarded(l, cfg, dialect) ==
    [self |-> l.self, fn |-> l.fn, origin |-> l.origin, vm |-> l.vm,
     active |-> Truthy(IsImplForVariant(l.self, dialect, l.vm)), result |-> TRUE,
     delegated |-> HasNativeImpl(cfg, dialect)]

\* _on_table_create, _on_table_drop, _on_metadata_create, _on_metadata_drop:
\* result is whether the callback went on to self.dialect_impl(dialect),
\* delegated whether it called the implementation's callback
OnEvent(l, cfg, dialect) ==
    LET active == Truthy(IsImplForVariant(l.self, dialect, l.vm))
    IN  [self |-> l.self, fn |-> l.fn, origin |-> l.origin, vm |-> l.vm,
         active |-> active, result |-> active,
         delegated |-> active /\ HasNativeImpl(cfg, dialect)]

\* the create rule of a constraint called by the DDL compiler
CreateRule(c, cfg, dialect) ==
    [self |-> c.self, fn |-> "_should_create_constraint", origin |-> "set_table", vm |-> c.vm,
     active |-> Truthy(IsImplForVariant(c.self, dialect, c.vm)),
     result |-> ShouldCreateConstraint(c, cfg, dialect), delegated |-> FALSE]

TypeConfigs(cls) ==
    [cls : {cls}, create_constraint : BOOLEAN,
     metadata : IF cls = "Enum" THEN BOOLEAN ELSE {FALSE},
     name : IF cls = "Boolean" THEN {NameNone, "ck_flag"} ELSE {NameNone},
     create_events : {TRUE}, native_enum : {TRUE}]

NoColumn == [default |-> Plain(0), variants |-> EmptyDict, hooks |-> << >>]
NoFired == [kind |-> "none", target |-> "none", event |-> "none", dialect |-> "none",
            calls |-> << >>]

\* the types of one column are constructed
Construct ==
    /\ phase = "new"
    /\ \E cls \in {"Boolean", "Enum"} : \E tys \in [TypeIds -> TypeConfigs(cls)] :
          /\ types' = tys
          /\ LET RECURSIVE All(_)
                 All(i) == IF i > MaxTypes THEN << >> ELSE InitListeners(i, tys[i]) \o All(i + 1)
             IN  listeners' = All(1)
    /\ phase' = "constructed"
    /\ UNCHANGED <<expr, column, constraints, fired, enumVars, procVars, indexVars, lifeVars, cacheVars>>

\* the mutant of ColumnInit in which the hooks run at once
ColumnInitEager ==
    /\ phase = "constructed"
    /\ \E default \in Entries, names \in SUBSET {VariantNames[i] : i \in DOMAIN VariantNames} :
       \E variants \in [names -> Entries] :
          /\ ValidColumnType(default, variants)
          /\ column' = [default |-> default, variants |-> variants,
                        hooks |-> ColumnHooks(default, variants)]
          /\ LET r == RunHooks(ColumnHooks(default, variants), types,
                               [default |-> default, variants |-> variants])
             IN  listeners' = listeners \o r[1] /\ constraints' = constraints \o r[2]
    /\ phase' = "column"
    /\ UNCHANGED <<expr, types, fired, enumVars, procVars, indexVars, lifeVars, cacheVars>>

\* Column(name, type): the type and its variants are attached to the column
ColumnInit ==
    /\ phase = "constructed"
    /\ \E default \in Entries, names \in SUBSET {VariantNames[i] : i \in DOMAIN VariantNames} :
       \E variants \in [names -> Entries] :
          /\ ValidColumnType(default, variants)
          /\ column' = [default |-> default, variants |-> variants,
                        hooks |-> ColumnHooks(default, variants)]
    /\ phase' = "column"
    /\ UNCHANGED <<expr, types, listeners, constraints, fired, enumVars, procVars, indexVars, lifeVars, cacheVars>>

\* the column is attached to a table: its hooks run
AttachTable ==
    /\ phase = "column"
    /\ LET r == RunHooks(column.hooks, types, column)
       IN  /\ listeners' = listeners \o r[1]
           /\ constraints' = constraints \o r[2]
    /\ phase' = "table"
    /\ UNCHANGED <<expr, types, column, fired, enumVars, procVars, indexVars, lifeVars, cacheVars>>

\* before_create / after_drop fires on the table or on the metadata for a backend
Fire ==
    /\ phase = "table"
    /\ fired = NoFired
    /\ \E target \in {"table", "metadata"}, event \in {"before_create", "after_drop"},
          dialect \in Dialects :
          LET ls == SelectSeq(listeners, LAMBDA l : l.target = target /\ l.event = event)
          IN  fired' = [kind |-> "event", target |-> target, event |-> event,
                        dialect |-> dialect.name,
                        calls |-> [i \in DOMAIN ls |-> OnEvent(ls[i], types[ls[i].self], dialect)]]
    /\ UNCHANGED <<expr, types, column, listeners, constraints, phase, enumVars, procVars, indexVars, lifeVars, cacheVars>>

\* CREATE TABLE is compiled for a backend: the create rule of every
\* constraint of the table is evaluated
CompileCreateTable ==
    /\ phase = "table"
    /\ fired = NoFired
    /\ \E dialect \in Dialects :
          fired' = [kind |-> "ddl", target |-> "table", event |-> "create_table",
                    dialect |-> dialect.name,
                    calls |-> [i \in DOMAIN constraints |->
                        CreateRule(constraints[i], types[constraints[i].self], dialect)]]
    /\ UNCHANGED <<expr, types, column, listeners, constraints, phase, enumVars, procVars, indexVars, lifeVars, cacheVars>>

-----------------------------------------------------------------------------
(***************************************************************************)
(*                     ACTIONS: EXPRESSION ADAPTATION                      *)
(***************************************************************************)

Cfgs == 0..MaxCfg

\* one binary expression is built
Operate ==
    /\ expr = NoExpr
    /\ \E op \in Operators, lcls \in Classes, rcls \in Classes, lcfg \in Cfgs, rcfg \in Cfgs :
          BinaryOperate(op, lcls, lcfg, rcls, rcfg)

(***************************************************************************)
(*                           ACTIONS: ENUM                                 *)
(***************************************************************************)

\* Enum(*enums, **kw)
EnumConstruct ==
    /\ enum.state = "none"
    /\ \E arg \in EnumArgs, kw \in EnumKw :
          /\ (kw.values_callable => arg.kind = "class")
          /\ enum' = EnumInit(arg, kw)
    /\ UNCHANGED <<expr, schemaVars, procVars, indexVars, outcome, lifeVars, cacheVars>>

\* the bind processor called with a host value, and the result processor
\* called with what was bound
Bind ==
    /\ enum.state = "built"
    /\ outcome = NoOutcome
    /\ \E v \in HostValues :
          LET r == EnumBindProcess(enum, v)
          IN  outcome' = [op |-> "bind", arg |-> v, res |-> r,
                          back |-> IF r.ok THEN EnumResultProcess(enum, r.value) ELSE Returned(None)]
    /\ UNCHANGED <<expr, schemaVars, procVars, indexVars, enum, lifeVars, cacheVars>>

\* the result processor called with a value of the driver
Result ==
    /\ enum.state = "built"
    /\ outcome = NoOutcome
    /\ \E v \in DbValues :
          outcome' = [op |-> "result", arg |-> v, res |-> EnumResultProcess(enum, v),
                      back |-> Returned(None)]
    /\ UNCHANGED <<expr, schemaVars, procVars, indexVars, enum, lifeVars, cacheVars>>


-----------------------------------------------------------------------------
(***************************************************************************)
(*                 PROCESSORS: BOOLEAN, NUMERIC, JSON                      *)
(***************************************************************************)

\* Largest integer given to the Boolean processors.
MaxInt == 2
\* Largest scale / decimal_return_scale given to a numeric type.
MaxScale == 4

\* Python values: the type of the value, the number it holds as num/den
\* (numbers of any type compare and hash by value), and its text
PyNone == [kind |-> "none", num |-> 0, den |-> 1, text |-> ""]
PyBool(b) == [kind |-> "bool", num |-> IF b THEN 1 ELSE 0, den |-> 1, text |-> ""]
PyInt(n) == [kind |-> "int", num |-> n, den |-> 1, text |-> ""]
PyFloat(n, d) == [kind |-> "float", num |-> n, den |-> d, text |-> ""]
PyStr(t) == [kind |-> "str", num |-> 0, den |-> 1, text |-> t]
\* a piece of SQL text rendered by the compiler
SqlText(t) == [kind |-> "sql", num |-> 0, den |-> 1, text |-> t]

NumberKinds == {"bool", "int", "float"}

\* a == b
PyEq(a, b) ==
    IF a.kind \in NumberKinds /\ b.kind \in NumberKinds
    THEN a.num * b.den = b.num * a.den
    ELSE a.kind = b.kind /\ a.text = b.text

\* bool(value), int(value)
PyTruth(v) ==
    IF v.kind \in NumberKinds THEN v.num /= 0 ELSE v.kind /= "none" /\ v.text /= ""
PyIntOf(v) == PyInt(v.num \div v.den)

Ok(v) == [ok |-> TRUE, error |-> "", value |-> v]
Raised(e) == [ok |-> FALSE, error |-> e, value |-> PyNone]

\* Boolean._strict_bools
StrictBools == {PyNone, PyBool(TRUE), PyBool(FALSE)}

\* isinstance(value, int): bool is a subclass of int
IsInstanceInt(v) == v.kind \in {"int", "bool"}

\* Boolean._strict_as_bool
StrictAsBool(value) ==
    IF ~(\E s \in StrictBools : PyEq(value, s))
    THEN IF ~IsInstanceInt(value) THEN Raised("TypeError") ELSE Raised("ValueError")
    ELSE Ok(value)

\* Boolean.literal_processor(dialect)(value)
BooleanLiteralProcess(value) ==
    LET r == StrictAsBool(value)
    IN  IF ~r.ok THEN r ELSE Ok(SqlText(IF PyTruth(r.value) THEN "true" ELSE "false"))

\* Boolean.bind_processor(dialect)(value)
BooleanBindProcess(supports_native_boolean, value) ==
    LET r == StrictAsBool(value)
    IN  IF ~r.ok THEN r
        ELSE IF r.value.kind /= "none"
        THEN Ok(IF supports_native_boolean THEN PyBool(PyTruth(r.value)) ELSE PyIntOf(r.value))
        ELSE Ok(r.value)

BooleanValues ==
    {PyNone, PyBool(TRUE), PyBool(FALSE)} \cup {PyInt(n) : n \in -1..MaxInt}
        \cup {PyFloat(0, 1), PyFloat(1, 1), PyFloat(5, 2)} \cup {PyStr("foo"), PyStr("")}

\* scale=None, decimal_return_scale=None
NoScale == -1
\* Numeric._default_decimal_return_scale
DefaultDecimalReturnScale == 10

ScaleArgs == {NoScale, 0, 2, MaxScale}

\* Numeric(precision, scale, decimal_return_scale, asdecimal);
\* Float / Double(precision, asdecimal, decimal_return_scale), whose scale is
\* the class attribute None
NumericTypes ==
    [cls : {"Numeric"}, asdecimal : BOOLEAN, scale : ScaleArgs,
     decimal_return_scale : ScaleArgs]
        \cup [cls : {"Float", "Double"}, asdecimal : BOOLEAN, scale : {NoScale},
              decimal_return_scale : ScaleArgs]

\* the processors of sqlalchemy.engine.processors, and no processor
NoProcessor == [fn |-> "None", scale |-> NoScale]
ToFloat == [fn |-> "to_float", scale |-> NoScale]
ToDecimal(scale) == [fn |-> "to_decimal", scale |-> scale]

\* Numeric._effective_decimal_return_scale
EffectiveDecimalReturnScale(self) ==
    IF self.decimal_return_scale /= NoScale THEN self.decimal_return_scale
    ELSE IF self.scale /= NoScale THEN self.scale
    ELSE DefaultDecimalReturnScale

\* the mutant of NumericResultProcessor that converts whatever the backend returns
NumericResultProcessorAlways(self, supports_native_decimal) ==
    IF self.asdecimal
    THEN ToDecimal(IF self.scale /= NoScale THEN self.scale ELSE DefaultDecimalReturnScale)
    ELSE ToFloat

\* Numeric.result_processor
NumericResultProcessor(self, supports_native_decimal) ==
    IF self.asdecimal
    THEN IF supports_native_decimal
         THEN NoProcessor
         ELSE ToDecimal(IF self.scale /= NoScale THEN self.scale
                        ELSE DefaultDecimalReturnScale)
    ELSE IF supports_native_decimal THEN ToFloat ELSE NoProcessor

\* Float.result_processor
FloatResultProcessor(self, supports_native_decimal) ==
    IF self.asdecimal THEN ToDecimal(EffectiveDecimalReturnScale(self))
    ELSE IF supports_native_decimal THEN ToFloat
    ELSE NoProcessor

\* type.result_processor(dialect, coltype) of a numeric type
ResultProcessor(self, supports_native_decimal) ==
    IF self.cls = "Numeric"
    THEN NumericResultProcessor(self, supports_native_decimal)
    ELSE FloatResultProcessor(self, supports_native_decimal)

\* JSON.NULL, the null() construct, and a value to serialize
JsonNULL == [kind |-> "JSON_NULL", num |-> 0, den |-> 1, text |-> ""]
SqlNull == [kind |-> "Null", num |-> 0, den |-> 1, text |-> ""]
PyDict == [kind |-> "dict", num |-> 0, den |-> 1, text |-> "{}"]
JsonValues == {JsonNULL, SqlNull, PyNone, PyDict, PyStr("a")}

\* json.dumps(value)
JsonDumps(v) ==
    PyStr(CASE v.kind = "none" -> "null"
            [] v.kind = "str" -> "\"a\""
            [] OTHER -> v.text)

\* the bind processor of the dialect's string type, when there is one
StringProcess(v) == [v EXCEPT !.kind = "bytes"]

\* the mutant of MakeBindProcessor that treats JSON.NULL like None
MakeBindProcessorNullAsNone(self, string_process, value) ==
    LET v == IF value = JsonNULL THEN PyNone ELSE value
    IN  IF v.kind = "Null" \/ (v = PyNone /\ self.none_as_null)
        THEN PyNone
        ELSE IF string_process THEN StringProcess(JsonDumps(v)) ELSE JsonDumps(v)

\* JSON._make_bind_processor(string_process, json_serializer)(value)
MakeBindProcessor(self, string_process, value) ==
    IF value /= JsonNULL /\ (value.kind = "Null" \/ (value = PyNone /\ self.none_as_null))
    THEN PyNone
    ELSE LET v == IF value = JsonNULL THEN PyNone ELSE value
         IN  IF string_process THEN StringProcess(JsonDumps(v)) ELSE JsonDumps(v)

(***************************************************************************)
(*       PROCESSORS CALLED WITH None: BINARY, INTERVAL, PICKLE, ENUM       *)
(***************************************************************************)

\* values: bytes, a timedelta and a datetime, and what the functions of the
\* driver and of the pickler and json.loads make of a value
PyBytes(t) == [kind |-> "bytes", num |-> 0, den |-> 1, text |-> t]
PyTimedelta == [kind |-> "timedelta", num |-> 1, den |-> 1, text |-> ""]
Wrapped(fn, v) == [v EXCEPT !.kind = fn]

\* the mutant of BinaryBindProcess that wraps None as well
BinaryBindProcessWrapsNone(has_dbapi, value) ==
    IF ~has_dbapi THEN value ELSE Wrapped("DBAPIBinary", value)

\* _Binary.bind_processor(dialect)(value); without a dbapi there is no
\* processor and the value is bound as it is
BinaryBindProcess(has_dbapi, value) ==
    IF ~has_dbapi THEN value
    ELSE IF value /= PyNone THEN Wrapped("DBAPIBinary", value) ELSE PyNone

\* _Binary.result_processor(dialect, coltype)(value)
BinaryResultProcess(value) ==
    IF value /= PyNone THEN Wrapped("bytes", value) ELSE value

\* the bind or result processor of the backend's DateTime implementation,
\* when it has one: None stays None
DateTimeImplProcess(value) ==
    IF value = PyNone THEN PyNone ELSE Wrapped("driver_datetime", value)

\* Interval.bind_processor(dialect)(value)
IntervalBindProcess(impl_processor, value) ==
    LET dt_value == IF value /= PyNone THEN Wrapped("epoch_plus", value) ELSE PyNone
    IN  IF impl_processor THEN DateTimeImplProcess(dt_value) ELSE dt_value

\* Interval.result_processor(dialect, coltype)(value)
IntervalResultProcess(impl_processor, value) ==
    IF impl_processor
    THEN LET dt_value == DateTimeImplProcess(value)
         IN  IF dt_value = PyNone THEN PyNone ELSE Wrapped("minus_epoch", dt_value)
    ELSE IF value = PyNone THEN PyNone ELSE Wrapped("minus_epoch", value)

\* PickleType.bind_processor(dialect)(value); the implementation is a
\* LargeBinary, which has a bind processor when the backend has a dbapi
PickleBindProcess(has_dbapi, value) ==
    LET dumped == IF value /= PyNone THEN Wrapped("dumps", value) ELSE value
    IN  IF has_dbapi THEN BinaryBindProcess(has_dbapi, dumped) ELSE dumped

\* PickleType.result_processor(dialect, coltype)(value); the result
\* processor of the LargeBinary is always there
PickleResultProcess(value) ==
    LET v == BinaryResultProcess(value)
    IN  IF v = PyNone THEN PyNone ELSE Wrapped("loads", v)

\* JSON.result_processor(dialect, coltype)(value)
JsonResultProcess(string_process, value) ==
    IF value = PyNone THEN PyNone
    ELSE Wrapped("json_loads", IF string_process THEN Wrapped("str", value) ELSE value)

\* the types of which a processor is made: flag is the capability of the
\* backend the processor depends on (native boolean, dbapi, a processor of
\* the implementation type, a string processor), opt is validate_strings of
\* an Enum and none_as_null of a JSON
BinaryTypeClasses == {"LargeBinary", "BINARY", "VARBINARY"}
ProcessorTypes ==
    [cls : {"Boolean", "Interval", "PickleType"} \cup BinaryTypeClasses,
     flag : BOOLEAN, opt : {FALSE}]
        \cup [cls : {"Enum"}, flag : {FALSE}, opt : BOOLEAN]
        \cup [cls : {"JSON"}, flag : BOOLEAN, opt : BOOLEAN]

\* Enum("red", "green", validate_strings=...)
EnumOf(validate_strings) ==
    EnumInit([kind |-> "strings", labels |-> <<Str("red"), Str("green")>>, members |-> <<>>],
             [omit_aliases |-> TRUE, values_callable |-> FALSE, length |-> NoArg,
              native_enum |-> TRUE, disable_warnings |-> FALSE,
              validate_strings |-> validate_strings, name |-> "None"])

\* a value as the Enum lookups see it, and back
ToEnumValue(v) == IF v = PyNone THEN None ELSE IF v.kind = "str" THEN Str(v.text) ELSE OtherValue
FromEnumResult(r) ==
    IF ~r.ok THEN Raised(r.error)
    ELSE IF r.value = None THEN Ok(PyNone) ELSE Ok(PyStr(r.value[2]))

\* a host value of the type, and a value of the driver
HostSample(t) ==
    CASE t.cls = "Boolean" -> PyBool(TRUE)
      [] t.cls = "Enum" -> PyStr("red")
      [] t.cls \in BinaryTypeClasses -> PyBytes("ab")
      [] t.cls = "Interval" -> PyTimedelta
      [] OTHER -> PyDict
DriverSample(t) ==
    CASE t.cls = "Enum" -> PyStr("red")
      [] t.cls = "Interval" -> Wrapped("datetime", PyTimedelta)
      [] t.cls = "JSON" -> PyStr("{}")
      [] OTHER -> PyBytes("ab")

\* type.bind_processor(dialect)(value)
BindProcess(t, value) ==
    CASE t.cls = "Boolean" -> BooleanBindProcess(t.flag, value)
      [] t.cls = "Enum" -> FromEnumResult(EnumBindProcess(EnumOf(t.opt), ToEnumValue(value)))
      [] t.cls \in BinaryTypeClasses -> Ok(BinaryBindProcess(t.flag, value))
      [] t.cls = "Interval" -> Ok(IntervalBindProcess(t.flag, value))
      [] t.cls = "PickleType" -> Ok(PickleBindProcess(t.flag, value))
      [] OTHER -> Ok(MakeBindProcessor([none_as_null |-> t.opt], t.flag, value))

\* type.result_processor(dialect, coltype)(value)
ResultProcess(t, value) ==
    CASE t.cls = "Enum" -> FromEnumResult(EnumResultProcess(EnumOf(t.opt), ToEnumValue(value)))
      [] t.cls \in BinaryTypeClasses -> Ok(BinaryResultProcess(value))
      [] t.cls = "Interval" -> Ok(IntervalResultProcess(t.flag, value))
      [] t.cls = "PickleType" -> Ok(PickleResultProcess(value))
      [] OTHER -> Ok(JsonResultProcess(t.flag, value))

(***************************************************************************)
(*                      LITERAL TYPE RESOLUTION                            *)
(***************************************************************************)

\* DateTime and Time and their subclasses in this module
DateTimeTypeClasses == {"DateTime", "TIMESTAMP", "DATETIME"}
TimeTypeClasses == {"Time", "TIME"}

\* type instances: the module-level ones have a name, the others are "user"
TzType(cls, timezone, name) == [cls |-> cls, timezone |-> timezone, name |-> name]
DATETIME_TIMEZONE == TzType("DateTime", TRUE, "DATETIME_TIMEZONE")
TIME_TIMEZONE == TzType("Time", TRUE, "TIME_TIMEZONE")
ModuleDATETIME == TzType("DateTime", FALSE, "_DATETIME")
ModuleTIME == TzType("Time", FALSE, "_TIME")
NULLTYPE == TzType("NullType", FALSE, "NULLTYPE")

TzTypes ==
    {TzType(c, tz, "user") : c \in DateTimeTypeClasses \cup TimeTypeClasses, tz \in BOOLEAN}
        \cup {DATETIME_TIMEZONE, TIME_TIMEZONE, ModuleDATETIME, ModuleTIME}

\* literal values: datetime.datetime and datetime.time objects with or
\* without tzinfo, an object of a type that is not in _type_map, and a
\* SQLAlchemy construct
LiteralValues ==
    [type : {"datetime", "time"}, tzinfo : BOOLEAN]
        \cup [type : {"object", "sqlalchemy"}, tzinfo : {FALSE}]

\* the mutant of ResolveForLiteral that promotes whatever the value is
ResolveForLiteralAlways(self, value) ==
    IF ~self.timezone
    THEN IF self.cls \in DateTimeTypeClasses THEN DATETIME_TIMEZONE ELSE TIME_TIMEZONE
    ELSE self

\* DateTime._resolve_for_literal, Time._resolve_for_literal
ResolveForLiteral(self, value) ==
    LET with_timezone == value.tzinfo
    IN  IF with_timezone /\ ~self.timezone
        THEN IF self.cls \in DateTimeTypeClasses THEN DATETIME_TIMEZONE ELSE TIME_TIMEZONE
        ELSE self

\* _type_map, for the types of the literal values
TypeMap == "datetime" :> ModuleDATETIME @@ "time" :> ModuleTIME

\* _resolve_value_to_type
ResolveValueToType(value) ==
    IF value.type \notin DOMAIN TypeMap
    THEN IF value.type = "sqlalchemy"
         THEN [ok |-> FALSE, error |-> "ArgumentError", type |-> NULLTYPE]
         ELSE [ok |-> TRUE, error |-> "", type |-> NULLTYPE]
    ELSE [ok |-> TRUE, error |-> "", type |-> ResolveForLiteral(TypeMap[value.type], value)]

(***************************************************************************)
(*                        ACTIONS: PROCESSORS                              *)
(***************************************************************************)

NoProc == [op |-> "none"]

\* Boolean().bind_processor(dialect)(value)
BooleanBind ==
    /\ proc = NoProc
    /\ \E native \in BOOLEAN, v \in BooleanValues :
          proc' = [op |-> "boolean_bind", native |-> native, arg |-> v,
                   res |-> BooleanBindProcess(native, v)]
    /\ UNCHANGED <<expr, schemaVars, enumVars, indexVars, lifeVars, cacheVars>>

\* Boolean().literal_processor(dialect)(value)
BooleanLiteral ==
    /\ proc = NoProc
    /\ \E native \in BOOLEAN, v \in BooleanValues :
          proc' = [op |-> "boolean_literal", native |-> native, arg |-> v,
                   res |-> BooleanLiteralProcess(v)]
    /\ UNCHANGED <<expr, schemaVars, enumVars, indexVars, lifeVars, cacheVars>>

\* type.result_processor(dialect, coltype) of a numeric type
NumericResult ==
    /\ proc = NoProc
    /\ \E t \in NumericTypes, native \in BOOLEAN :
          proc' = [op |-> "numeric_result", type |-> t, native |-> native,
                   res |-> ResultProcessor(t, native)]
    /\ UNCHANGED <<expr, schemaVars, enumVars, indexVars, lifeVars, cacheVars>>

\* the bind processor of JSON(none_as_null) called with a value
JsonBind ==
    /\ proc = NoProc
    /\ \E none_as_null \in BOOLEAN, string_process \in BOOLEAN, v \in JsonValues :
          proc' = [op |-> "json_bind", none_as_null |-> none_as_null,
                   string_process |-> string_process, arg |-> v,
                   res |-> MakeBindProcessor([none_as_null |-> none_as_null],
                                             string_process, v)]
    /\ UNCHANGED <<expr, schemaVars, enumVars, indexVars, lifeVars, cacheVars>>

\* type._resolve_for_literal(value) for a DateTime or Time type
ResolveLiteral ==
    /\ proc = NoProc
    /\ \E t \in TzTypes, v \in [type : {"datetime", "time"}, tzinfo : BOOLEAN] :
          proc' = [op |-> "resolve_for_literal", type |-> t, arg |-> v,
                   res |-> ResolveForLiteral(t, v)]
    /\ UNCHANGED <<expr, schemaVars, enumVars, indexVars, lifeVars, cacheVars>>

\* _resolve_value_to_type(value)
ResolveValue ==
    /\ proc = NoProc
    /\ \E v \in LiteralValues :
          proc' = [op |-> "resolve_value", arg |-> v, res |-> ResolveValueToType(v)]
    /\ UNCHANGED <<expr, schemaVars, enumVars, indexVars, lifeVars, cacheVars>>

\* the bind processor of a type called with None or with a value
ProcessorBind ==
    /\ proc = NoProc
    /\ \E t \in ProcessorTypes : \E v \in {PyNone, HostSample(t)} :
          proc' = [op |-> "bind_call", type |-> t, arg |-> v, res |-> BindProcess(t, v)]
    /\ UNCHANGED <<expr, schemaVars, enumVars, indexVars, lifeVars, cacheVars>>

\* the result processor of a type called with NULL or with a value
ProcessorResult ==
    /\ proc = NoProc
    /\ \E t \in {x \in ProcessorTypes : x.cls /= "Boolean"} :
       \E v \in {PyNone, DriverSample(t)} :
          proc' = [op |-> "result_call", type |-> t, arg |-> v, res |-> ResultProcess(t, v)]
    /\ UNCHANGED <<expr, schemaVars, enumVars, indexVars, lifeVars, cacheVars>>

-----------------------------------------------------------------------------
(***************************************************************************)
(*                       ARRAY: SHAPE AND INDEXING                         *)
(***************************************************************************)

\* Largest dimensions argument, largest index, longest chain of [] tried.
MaxDims == 3
MaxIndex == 1
MaxChain == 3

\* dimensions=None, dimensions=n
DimNone == [none |-> TRUE, n |-> 0]
Dim(n) == [none |-> FALSE, n |-> n]

\* a type that is not an ARRAY, and an ARRAY
ItemType(cls) == [cls |-> cls]
ArrayType(item_type, as_tuple, dimensions, zero_indexes) ==
    [cls |-> "ARRAY", item_type |-> item_type, as_tuple |-> as_tuple,
     dimensions |-> dimensions, zero_indexes |-> zero_indexes]

\* ARRAY.__init__: item_arg is a type instance, or a type class that is
\* instantiated without arguments
ArrayInit(item_arg, as_tuple, dimensions, zero_indexes) ==
    IF ~item_arg.is_class /\ item_arg.type.cls = "ARRAY"
    THEN [state |-> "ValueError"]
    ELSE IF item_arg.is_class /\ item_arg.type.cls = "ARRAY"
    THEN [state |-> "TypeError"]
    ELSE [state |-> "built",
          type |-> ArrayType(item_arg.type, as_tuple, dimensions, zero_indexes)]

\* arr_type.adapt(arr_type.__class__, dimensions=n): a copy made from the
\* constructor arguments of arr_type, with the dimensions given
ArrayAdapt(arr_type, dimensions) ==
    ArrayInit([is_class |-> FALSE, type |-> arr_type.item_type],
              arr_type.as_tuple, dimensions, arr_type.zero_indexes).type

\* an integer index, and slice(start, stop, step)
IntIndex(i) == [slice |-> FALSE, i |-> PyInt(i)]
SliceIndex(start, stop, step) ==
    [slice |-> TRUE, start |-> start, stop |-> stop, step |-> step]

\* value + 1
PyAdd1(v) == IF v.kind \in NumberKinds THEN Ok(PyInt(v.num + 1)) ELSE Raised("TypeError")

NoType == [cls |-> "none"]
GetitemRaised(e) == [ok |-> FALSE, error |-> e, operator |-> "none", index |-> IntIndex(0),
                     return_type |-> NoType]
GetitemReturned(index, return_type) ==
    [ok |-> TRUE, error |-> "", operator |-> "getitem", index |-> index,
     return_type |-> return_type]

\* the mutant of SetupGetitem that takes one dimension off also when the
\* dimensions are 1
SetupGetitemAlwaysAdapt(arr_type, index) ==
    IF index.slice
    THEN IF arr_type.zero_indexes
         THEN LET start == PyAdd1(index.start)
                  stop == PyAdd1(index.stop)
              IN  IF ~start.ok \/ ~stop.ok THEN GetitemRaised("TypeError")
                  ELSE GetitemReturned(SliceIndex(start.value, stop.value, index.step),
                                       arr_type)
         ELSE GetitemReturned(index, arr_type)
    ELSE LET idx == IF arr_type.zero_indexes THEN IntIndex(index.i.num + 1) ELSE index
         IN  IF arr_type.dimensions.none
             THEN GetitemReturned(idx, arr_type.item_type)
             ELSE GetitemReturned(idx, ArrayAdapt(arr_type, Dim(arr_type.dimensions.n - 1)))

\* ARRAY.Comparator._setup_getitem
SetupGetitem(arr_type, index) ==
    IF index.slice
    THEN IF arr_type.zero_indexes
         THEN LET start == PyAdd1(index.start)
                  stop == PyAdd1(index.stop)
              IN  IF ~start.ok \/ ~stop.ok THEN GetitemRaised("TypeError")
                  ELSE GetitemReturned(SliceIndex(start.value, stop.value, index.step),
                                       arr_type)
         ELSE GetitemReturned(index, arr_type)
    ELSE LET idx == IF arr_type.zero_indexes THEN IntIndex(index.i.num + 1) ELSE index
         IN  IF arr_type.dimensions.none \/ arr_type.dimensions.n = 1
             THEN GetitemReturned(idx, arr_type.item_type)
             ELSE GetitemReturned(idx, ArrayAdapt(arr_type, Dim(arr_type.dimensions.n - 1)))

ItemArgs ==
    [is_class : BOOLEAN, type : {ItemType("Integer"), ItemType("String")}]
        \cup {[is_class |-> FALSE,
               type |-> ArrayType(ItemType("Integer"), FALSE, DimNone, FALSE)],
              [is_class |-> TRUE, type |-> [cls |-> "ARRAY"]]}
DimensionArgs == {DimNone} \cup {Dim(n) : n \in 0..MaxDims}
Indexes ==
    {IntIndex(i) : i \in 0..MaxIndex}
        \cup {SliceIndex(start, stop, step) :
                start \in {PyNone, PyInt(0)}, stop \in {PyNone, PyInt(MaxIndex)},
                step \in {PyNone, PyInt(2)}}

NoChain == [state |-> "none"]

(***************************************************************************)
(*                         JSON CAST ACCESSORS                             *)
(***************************************************************************)

\* JSON.Comparator._setup_getitem: the operator and the type of col[index]
JsonSetupGetitem(self_type, index_kind) ==
    IF index_kind /= "str" /\ index_kind = "sequence"
    THEN [operator |-> "json_path_getitem_op", type |-> self_type]
    ELSE [operator |-> "json_getitem_op", type |-> self_type]

\* expressions of type JSON: a column, col[index], and col + col (a
\* BinaryExpression of the operator concat_op)
ColumnExpr == [binary |-> FALSE, operator |-> "none", type |-> "JSON"]
BinaryExpr(operator, type) == [binary |-> TRUE, operator |-> operator, type |-> type]
JsonExprs ==
    {ColumnExpr, BinaryExpr("concat_op", "JSON")}
        \cup {BinaryExpr(JsonSetupGetitem("JSON", k).operator, JsonSetupGetitem("JSON", k).type) :
                k \in {"str", "int", "sequence"}}

CastReturned(exprs, id) == [ok |-> TRUE, error |-> "", exprs |-> exprs, ret |-> id]
CastRaised(exprs, e) == [ok |-> FALSE, error |-> e, exprs |-> exprs, ret |-> 0]

\* the mutant of BinaryWType that sets the type of the expression itself
BinaryWTypeInPlace(exprs, id, typ) ==
    IF ~exprs[id].binary
            \/ exprs[id].operator \notin {"json_getitem_op", "json_path_getitem_op"}
    THEN CastRaised(exprs, "InvalidRequestError")
    ELSE CastReturned([exprs EXCEPT ![id].type = typ], id)

\* JSON.Comparator._binary_w_type: exprs is the store of expressions, id the
\* expression of the comparator
BinaryWType(exprs, id, typ) ==
    IF ~exprs[id].binary
            \/ exprs[id].operator \notin {"json_getitem_op", "json_path_getitem_op"}
    THEN CastRaised(exprs, "InvalidRequestError")
    ELSE CastReturned(Append(exprs, [exprs[id] EXCEPT !.type = typ]), Len(exprs) + 1)

\* the type each accessor passes to _binary_w_type
AccessorType ==
    "as_boolean" :> "Boolean" @@ "as_string" :> "String" @@ "as_integer" :> "Integer"
        @@ "as_float" :> "Float" @@ "as_numeric" :> "Numeric"

\* JSON.Comparator.as_boolean ... as_numeric, as_json
JsonAccessor(exprs, id, accessor) ==
    IF accessor = "as_json"
    THEN CastReturned(exprs, id)
    ELSE BinaryWType(exprs, id, AccessorType[accessor])

Accessors == DOMAIN AccessorType \cup {"as_json"}

NoJx == [state |-> "none"]

(***************************************************************************)
(*                          ACTIONS: INDEXING                              *)
(***************************************************************************)

\* ARRAY(item_type, as_tuple, dimensions, zero_indexes), the type of a column
ArrayConstruct ==
    /\ chain = NoChain /\ jx = NoJx
    /\ \E item \in ItemArgs, d \in DimensionArgs, z \in BOOLEAN :
          LET a == ArrayInit(item, FALSE, d, z)
          IN  chain' = IF a.state = "built"
                       THEN [state |-> "built", first |-> a.type, cur |-> a.type,
                             depth |-> 0, last |-> GetitemRaised("none"),
                             given |-> IntIndex(0), before |-> a.type]
                       ELSE [state |-> a.state]
    /\ UNCHANGED <<expr, schemaVars, enumVars, procVars, jx, lifeVars, cacheVars>>

\* expr[index] on an expression whose type is an ARRAY
GetItem ==
    /\ chain.state = "built"
    /\ chain.cur.cls = "ARRAY"
    /\ chain.depth < MaxChain
    /\ chain.depth > 0 => chain.last.ok
    /\ \E index \in Indexes :
          LET r == SetupGetitem(chain.cur, index)
          IN  chain' = [chain EXCEPT !.depth = @ + 1, !.last = r, !.given = index,
                                     !.before = chain.cur,
                                     !.cur = IF r.ok THEN r.return_type ELSE @]
    /\ UNCHANGED <<expr, schemaVars, enumVars, procVars, jx, lifeVars, cacheVars>>

\* an expression of type JSON is built
JsonExpr ==
    /\ chain = NoChain /\ jx = NoJx
    /\ \E e \in JsonExprs :
          jx' = [state |-> "built", exprs |-> <<e>>]
    /\ UNCHANGED <<expr, schemaVars, enumVars, procVars, chain, lifeVars, cacheVars>>

\* a cast accessor is called on the expression
JsonCast ==
    /\ jx.state = "built"
    /\ \E accessor \in Accessors :
          LET r == JsonAccessor(jx.exprs, 1, accessor)
          IN  jx' = [state |-> "cast", accessor |-> accessor, original |-> jx.exprs[1],
                     exprs |-> r.exprs, ok |-> r.ok, error |-> r.error, ret |-> r.ret]
    /\ UNCHANGED <<expr, schemaVars, enumVars, procVars, chain, lifeVars, cacheVars>>

-----------------------------------------------------------------------------
(***************************************************************************)
(*                    THE LIFE OF ONE TYPE INSTANCE                        *)
(***************************************************************************)

\* Number of calls of one processor.
MaxCalls == 2

\* schema=None
SchemaNone == "None"

\* the attributes of a new Enum and of a new Boolean (which has no schema,
\* metadata or inherit_schema: they are held at None / False); a MetaData
\* has a schema or none
SchemaTypes ==
    {t \in [cls : {"Enum"}, name : {NameNone, "mood"}, schema : {SchemaNone, "own"},
            metadata : BOOLEAN, metadata_schema : {SchemaNone, "meta"},
            inherit_schema : BOOLEAN, create_events : BOOLEAN,
            create_constraint : {FALSE}, native_enum : {TRUE}, length : {4}] :
        ~t.metadata => t.metadata_schema = SchemaNone}
    \cup [cls : {"Boolean"}, name : {NameNone, "ck_flag"}, schema : {SchemaNone},
          metadata : {FALSE}, metadata_schema : {SchemaNone},
          inherit_schema : {FALSE}, create_events : BOOLEAN,
          create_constraint : BOOLEAN, native_enum : {TRUE}, length : {0}]

\* JSON(none_as_null)
JsonTypes == [cls : {"JSON"}, none_as_null : BOOLEAN]

\* ARRAY(Integer, dimensions, zero_indexes)
ArrayTypes ==
    {ArrayType(ItemType("Integer"), FALSE, d, z) :
        d \in {DimNone} \cup {Dim(n) : n \in 1..MaxDims}, z \in BOOLEAN}

LifeTypes == SchemaTypes \cup JsonTypes \cup ArrayTypes

IsSchemaType(t) == t.cls \in {"Enum", "Boolean"}

\* the mutant of SetTableSchema that takes the schema of the table always
SetTableSchemaAlways(self, table_schema) == table_schema

\* the mutant of SetTableSchema in which a schema given to the type comes
\* before the schema of the table
SetTableSchemaOwnFirst(self, table_schema) ==
    IF self.schema /= SchemaNone THEN self.schema
    ELSE IF self.metadata /\ self.metadata_schema /= SchemaNone THEN self.metadata_schema
    ELSE IF self.inherit_schema THEN table_schema
    ELSE self.schema

\* SchemaType._set_table, its first statement: the schema of the type after
\* the attachment to a table of the schema given
SetTableSchema(self, table_schema) ==
    IF self.inherit_schema THEN table_schema
    ELSE IF self.metadata /\ self.schema = SchemaNone /\ self.metadata_schema /= SchemaNone
    THEN self.metadata_schema
    ELSE self.schema

\* type._set_table(column, table) of an Enum or a Boolean:
\* <<the type after, the new listeners, the new constraints>>
TypeSetTable(id, self, col, table_schema) ==
    IF self.cls = "Boolean"
    THEN << self, SetTable(id, self, col)[1], SetTable(id, self, col)[2] >>
    ELSE << [self EXCEPT !.schema = SetTableSchema(self, table_schema)],
            SetTable(id, self, col)[1], SetTable(id, self, col)[2] >>

\* TypeEngine.adapt(cls, **kw): a new instance made from the constructor
\* arguments of self, with those of kw in their place
ConstructorCopy(self, create_events) == [self EXCEPT !.create_events = create_events]

\* the _create_events argument of adapt(): not given, True, False
CreateEventsArgs == {"unset", "True", "False"}

\* the mutant of SchemaTypeAdapt that keeps the event creation of self
SchemaTypeAdaptKeepsEvents(self, create_events) ==
    ConstructorCopy(self, IF create_events = "unset" THEN self.create_events
                          ELSE Truthy(create_events))

\* SchemaType.adapt(cls, **kw)
SchemaTypeAdapt(self, create_events) ==
    ConstructorCopy(self, IF create_events = "unset" THEN FALSE ELSE Truthy(create_events))

\* SchemaType.copy()
SchemaTypeCopy(self) == SchemaTypeAdapt(self, "True")

\* JSON.should_evaluate_none = value
SetShouldEvaluateNone(self, value) == [self EXCEPT !.none_as_null = ~value]

\* the bind processor made of a JSON (flag: there is a string processor) or
\* of a Boolean (flag: the backend has a native boolean), called with a
\* value; the processor of JSON reads self.none_as_null when it is called
ProcessorCall(self, flag, value) ==
    IF self.cls = "JSON"
    THEN Ok(MakeBindProcessor(self, flag, value))
    ELSE BooleanBindProcess(flag, value)

\* the values the processors are called with
CallValues(self) ==
    IF self.cls = "JSON" THEN JsonValues ELSE {PyNone, PyBool(TRUE), PyInt(0), PyStr("foo")}

\* a column whose type is the instance, without variants
PlainColumn(id) == [default |-> Plain(id), variants |-> EmptyDict]

NoLife == [state |-> "none"]
NoDerived == [how |-> "none"]
NoMade == [made |-> FALSE, flag |-> FALSE]

(***************************************************************************)
(*                     ACTIONS: LIFE OF AN INSTANCE                        *)
(***************************************************************************)

\* a type is constructed; it is instance 1
LifeConstruct ==
    /\ life = NoLife
    /\ \E t \in LifeTypes :
          life' = [state |-> "built", typ |-> t, orig |-> t, phase |-> "new",
                   table_schema |-> SchemaNone,
                   listeners |-> IF IsSchemaType(t) THEN InitListeners(1, t) ELSE << >>,
                   constraints |-> << >>, hooks |-> << >>, calls |-> << >>,
                   results |-> << >>, fired |-> FALSE, derived |-> NoDerived,
                   proc |-> NoMade, set |-> FALSE, item |-> GetitemRaised("none"),
                   indexed |-> FALSE]
    /\ UNCHANGED <<expr, schemaVars, enumVars, procVars, indexVars, cacheVars>>

\* Column(name, type): the type registers its table-attach hook
LifeAttachColumn ==
    /\ life.state = "built" /\ life.phase = "new"
    /\ IsSchemaType(life.typ)
    /\ life' = [life EXCEPT !.phase = "column", !.hooks = SetParent(Plain(1))]
    /\ UNCHANGED <<expr, schemaVars, enumVars, procVars, indexVars, cacheVars>>

\* the column is attached to a table with a schema or without: _set_table
LifeAttachTable ==
    /\ life.state = "built" /\ life.phase = "column"
    /\ \E table_schema \in {SchemaNone, "tbl"} :
          LET r == TypeSetTable(1, life.typ, PlainColumn(1), table_schema)
          IN  life' = [life EXCEPT !.phase = "table", !.typ = r[1],
                                   !.table_schema = table_schema,
                                   !.listeners = @ \o r[2], !.constraints = @ \o r[3]]
    /\ UNCHANGED <<expr, schemaVars, enumVars, procVars, indexVars, cacheVars>>

\* before_create / after_drop fires on the table or the metadata
LifeFire ==
    /\ life.state = "built" /\ life.phase = "table" /\ ~life.fired
    /\ \E target \in {"table", "metadata"}, event \in {"before_create", "after_drop"},
          dialect \in Dialects :
          LET ls == SelectSeq(life.listeners, LAMBDA l : l.target = target /\ l.event = event)
          IN  life' = [life EXCEPT !.fired = TRUE,
                           !.results = [i \in DOMAIN ls |-> OnEvent(ls[i], life.typ, dialect)]]
    /\ UNCHANGED <<expr, schemaVars, enumVars, procVars, indexVars, cacheVars>>

\* type.adapt(cls, **kw): instance 2 is made
LifeAdapt ==
    /\ life.state = "built" /\ IsSchemaType(life.typ)
    /\ life.derived = NoDerived
    /\ \E kw \in CreateEventsArgs :
          LET t == SchemaTypeAdapt(life.typ, kw)
          IN  life' = [life EXCEPT !.derived =
                          [how |-> "adapt", kw |-> kw, typ |-> t, attached |-> FALSE,
                           listeners |-> InitListeners(2, t)]]
    /\ UNCHANGED <<expr, schemaVars, enumVars, procVars, indexVars, cacheVars>>

\* type.copy(): instance 2 is made
LifeCopy ==
    /\ life.state = "built" /\ IsSchemaType(life.typ)
    /\ life.derived = NoDerived
    /\ LET t == SchemaTypeCopy(life.typ)
       IN  life' = [life EXCEPT !.derived =
                       [how |-> "copy", kw |-> "True", typ |-> t, attached |-> FALSE,
                        listeners |-> InitListeners(2, t)]]
    /\ UNCHANGED <<expr, schemaVars, enumVars, procVars, indexVars, cacheVars>>

\* a column of the type made by adapt() or copy() is attached to a table
LifeAttachDerived ==
    /\ life.state = "built" /\ life.derived /= NoDerived
    /\ ~life.derived.attached
    /\ \E table_schema \in {SchemaNone, "tbl"} :
          LET r == TypeSetTable(2, life.derived.typ, PlainColumn(2), table_schema)
          IN  life' = [life EXCEPT !.derived.typ = r[1], !.derived.attached = TRUE,
                                   !.derived.listeners = @ \o r[2]]
    /\ UNCHANGED <<expr, schemaVars, enumVars, procVars, indexVars, cacheVars>>

\* type.bind_processor(dialect)
LifeMakeProcessor ==
    /\ life.state = "built" /\ life.typ.cls \in {"JSON", "Boolean"}
    /\ ~life.proc.made
    /\ \E flag \in BOOLEAN : life' = [life EXCEPT !.proc = [made |-> TRUE, flag |-> flag]]
    /\ UNCHANGED <<expr, schemaVars, enumVars, procVars, indexVars, cacheVars>>

\* the processor made is called with a value
LifeCall ==
    /\ life.state = "built" /\ life.proc.made
    /\ Len(life.calls) < MaxCalls
    /\ \E v \in CallValues(life.typ) :
          life' = [life EXCEPT !.calls =
                      Append(@, [arg |-> v, res |-> ProcessorCall(life.typ, life.proc.flag, v),
                                 set |-> life.set])]
    /\ UNCHANGED <<expr, schemaVars, enumVars, procVars, indexVars, cacheVars>>

\* type.should_evaluate_none = value, on a JSON
LifeSetShouldEvaluateNone ==
    /\ life.state = "built" /\ life.typ.cls = "JSON"
    /\ ~life.set
    /\ \E value \in BOOLEAN :
          life' = [life EXCEPT !.typ = SetShouldEvaluateNone(@, value), !.set = TRUE]
    /\ UNCHANGED <<expr, schemaVars, enumVars, procVars, indexVars, cacheVars>>

\* expr[index] on an expression of the type, an ARRAY
LifeIndex ==
    /\ life.state = "built" /\ life.typ.cls = "ARRAY"
    /\ ~life.indexed
    /\ \E index \in Indexes :
          life' = [life EXCEPT !.indexed = TRUE, !.item = SetupGetitem(life.typ, index)]
    /\ UNCHANGED <<expr, schemaVars, enumVars, procVars, indexVars, cacheVars>>

-----------------------------------------------------------------------------
(***************************************************************************)
(*                         THE PROCESSOR CACHE                             *)
(***************************************************************************)

\* Number of callers that use the processor of one (type, backend) pair.
MaxCallers == 2

Callers == 1..MaxCallers

\* the types whose bind processors the cache of the backend holds:
\* a JSONElementType and the Integer and String shared by every
\* JSONElementType
CacheKeys == {"element", "integer", "string"}

\* a processor: a function of the backend, None, or the closure process of
\* JSONElementType.bind_processor over its two processors; and no processor
\* at all
Fn(name) == [fn |-> name, int_processor |-> "", string_processor |-> ""]
NoneFn == Fn("None")
Missing == Fn("missing")

\* the mutant of ElementBindProcessor that leaves the string processor out
ElementBindProcessorPartial(int_processor, string_processor) ==
    [fn |-> "process", int_processor |-> int_processor.fn, string_processor |-> "None"]

\* JSONElementType.bind_processor: the closure over the two processors
ElementBindProcessor(int_processor, string_processor) ==
    [fn |-> "process", int_processor |-> int_processor.fn,
     string_processor |-> string_processor.fn]

\* a processor of the backend applied to a value
Apply(fn, value) == [value EXCEPT !.text = fn]

\* process(value) of JSONElementType.bind_processor
ElementProcess(p, value) ==
    IF p.int_processor /= "None" /\ IsInstanceInt(value)
    THEN Apply(p.int_processor, value)
    ELSE IF p.string_processor /= "None" /\ value.kind = "str"
    THEN Apply(p.string_processor, value)
    ELSE value

\* the values given to the processor
ElementValues == {PyNone, PyInt(1), PyBool(TRUE), PyStr("key"), PyFloat(1, 2)}

\* the backends: the bind processors of their Integer and String
\* implementations, each a function or None
Backends == [integer : {NoneFn, Fn("int_fn")}, string : {NoneFn, Fn("str_fn")}]

\* impl.bind_processor(dialect) of the Integer and of the String
ImplBindProcessor(backend, key) == IF key = "integer" THEN backend.integer ELSE backend.string

\* the cache lookup of type._cached_bind_processor(dialect): the processor
\* installed, or a miss
CacheHit(memos, key) == memos[key] /= Missing

NoCache == [state |-> "none"]

(***************************************************************************)
(*                      ACTIONS: PROCESSOR CACHE                           *)
(***************************************************************************)

\* a backend is made: its cache is empty and no caller has started
CacheStart ==
    /\ cache = NoCache
    /\ \E backend \in Backends :
          cache' = [state |-> "running", backend |-> backend,
                    memos |-> [k \in CacheKeys |-> Missing],
                    pc |-> [c \in Callers |-> "start"],
                    int_processor |-> [c \in Callers |-> Missing],
                    string_processor |-> [c \in Callers |-> Missing],
                    ret |-> [c \in Callers |-> Missing],
                    installs |-> 0]
    /\ UNCHANGED <<expr, schemaVars, enumVars, procVars, indexVars, lifeVars>>

\* element._cached_bind_processor(dialect): a caller looks the processor up
\* and returns it, or goes on to compute it
CacheLookup ==
    /\ cache.state = "running"
    /\ \E c \in Callers :
          /\ cache.pc[c] = "start"
          /\ cache' = IF CacheHit(cache.memos, "element")
                      THEN [cache EXCEPT !.pc[c] = "done", !.ret[c] = cache.memos["element"]]
                      ELSE [cache EXCEPT !.pc[c] = "integer"]
    /\ UNCHANGED <<expr, schemaVars, enumVars, procVars, indexVars, lifeVars>>

\* JSONElementType.bind_processor, first statement:
\* self._integer._cached_bind_processor(dialect) finds the processor
IntegerLookup ==
    /\ cache.state = "running"
    /\ \E c \in Callers :
          /\ cache.pc[c] = "integer"
          /\ cache' = IF CacheHit(cache.memos, "integer")
                      THEN [cache EXCEPT !.pc[c] = "string",
                                         !.int_processor[c] = cache.memos["integer"]]
                      ELSE [cache EXCEPT !.pc[c] = "integer_install"]
    /\ UNCHANGED <<expr, schemaVars, enumVars, procVars, indexVars, lifeVars>>

\* ... or computes and installs it
IntegerInstall ==
    /\ cache.state = "running"
    /\ \E c \in Callers :
          /\ cache.pc[c] = "integer_install"
          /\ LET p == ImplBindProcessor(cache.backend, "integer")
             IN  cache' = [cache EXCEPT !.pc[c] = "string", !.int_processor[c] = p,
                                        !.memos["integer"] = p]
    /\ UNCHANGED <<expr, schemaVars, enumVars, procVars, indexVars, lifeVars>>

\* JSONElementType.bind_processor, second statement:
\* self.string_bind_processor(dialect) finds the processor
StringLookup ==
    /\ cache.state = "running"
    /\ \E c \in Callers :
          /\ cache.pc[c] = "string"
          /\ cache' = IF CacheHit(cache.memos, "string")
                      THEN [cache EXCEPT !.pc[c] = "install",
                                         !.string_processor[c] = cache.memos["string"]]
                      ELSE [cache EXCEPT !.pc[c] = "string_install"]
    /\ UNCHANGED <<expr, schemaVars, enumVars, procVars, indexVars, lifeVars>>

\* ... or computes and installs it
StringInstall ==
    /\ cache.state = "running"
    /\ \E c \in Callers :
          /\ cache.pc[c] = "string_install"
          /\ LET p == ImplBindProcessor(cache.backend, "string")
             IN  cache' = [cache EXCEPT !.pc[c] = "install", !.string_processor[c] = p,
                                        !.memos["string"] = p]
    /\ UNCHANGED <<expr, schemaVars, enumVars, procVars, indexVars, lifeVars>>

\* JSONElementType.bind_processor returns process; the caller installs it in
\* the cache and returns it
ElementInstall ==
    /\ cache.state = "running"
    /\ \E c \in Callers :
          /\ cache.pc[c] = "install"
          /\ LET p == ElementBindProcessor(cache.int_processor[c], cache.string_processor[c])
             IN  cache' = [cache EXCEPT !.pc[c] = "done", !.ret[c] = p,
                                        !.memos["element"] = p,
                                        !.installs = @ + 1]
    /\ UNCHANGED <<expr, schemaVars, enumVars, procVars, indexVars, lifeVars>>

-----------------------------------------------------------------------------
(***************************************************************************)
(*                           SPECIFICATIONS                                *)
(***************************************************************************)

Init ==
    /\ expr = NoExpr
    /\ types = << >>
    /\ column = NoColumn
    /\ listeners = << >>
    /\ constraints = << >>
    /\ fired = NoFired
    /\ phase = "new"
    /\ enum = NoEnum
    /\ outcome = NoOutcome
    /\ proc = NoProc
    /\ chain = NoChain
    /\ jx = NoJx
    /\ life = NoLife
    /\ cache = NoCache

NextAdapt == Operate
NextSchema == Construct \/ ColumnInit \/ AttachTable \/ Fire \/ CompileCreateTable
NextEnum == EnumConstruct \/ Bind \/ Result
NextProc ==
    BooleanBind \/ BooleanLiteral \/ NumericResult \/ JsonBind \/ ResolveLiteral
        \/ ResolveValue \/ ProcessorBind \/ ProcessorResult
NextIndex == ArrayConstruct \/ GetItem \/ JsonExpr \/ JsonCast
NextLife ==
    LifeConstruct \/ LifeAttachColumn \/ LifeAttachTable \/ LifeFire \/ LifeAdapt
        \/ LifeCopy \/ LifeAttachDerived \/ LifeMakeProcessor \/ LifeCall
        \/ LifeSetShouldEvaluateNone \/ LifeIndex
NextCache ==
    CacheStart \/ CacheLookup \/ IntegerLookup \/ IntegerInstall \/ StringLookup
        \/ StringInstall \/ ElementInstall

SpecAdapt == Init /\ [][NextAdapt]_vars
SpecSchema == Init /\ [][NextSchema]_vars
SpecEnum == Init /\ [][NextEnum]_vars
SpecProc == Init /\ [][NextProc]_vars
SpecIndex == Init /\ [][NextIndex]_vars
SpecLife == Init /\ [][NextLife]_vars
SpecCache == Init /\ [][NextCache]_vars

Next ==
    NextAdapt \/ NextSchema \/ NextEnum \/ NextProc \/ NextIndex \/ NextLife \/ NextCache
Spec == Init /\ [][Next]_vars

-----------------------------------------------------------------------------
(***************************************************************************)
(*                 PROPERTIES: EXPRESSION ADAPTATION                       *)
(***************************************************************************)

Built == expr.op /= "none"

\* the entry of the left type's table for the operator and the right affinity
HasEntry ==
    LET table == ExpressionAdaptations(expr.left)
    IN  expr.op \in DOMAIN table /\ Affinity(expr.right.cls) \in DOMAIN table[expr.op]
EntryOf == ExpressionAdaptations(expr.left)[expr.op][Affinity(expr.right.cls)]

\* C1: for a left type with a lookup table the result type is, in this order:
\* the left type's own instance when the table has no entry for the operator
\* and the right affinity; the right operand's instance when the entry is the
\* right affinity; the left operand's instance when the entry is the left
\* affinity; otherwise a default-configured instance of the entry.  The
\* operator is returned unchanged.
C1_LookupResolutionOrder ==
    (Built /\ expr.left.cls \in LookupClasses) =>
        /\ expr.resOp = expr.op
        /\ ~HasEntry => expr.resType = expr.left
        /\ (HasEntry /\ EntryOf = Affinity(expr.right.cls)) => expr.resType = expr.right
        /\ (HasEntry /\ EntryOf /= Affinity(expr.right.cls)
                /\ EntryOf = Affinity(expr.left.cls)) => expr.resType = expr.left
        /\ (HasEntry /\ EntryOf /= Affinity(expr.right.cls)
                /\ EntryOf /= Affinity(expr.left.cls)) => expr.resType = TypeInst(EntryOf, 0, 0)

\* Integer(cfg 1) + Integer(cfg 1): the entry is both affinities, and the
\* right operand's instance is the result
C1_Witness ==
    /\ expr.op = "add" /\ expr.left = TypeInst("Integer", 1, 1)
    /\ expr.right = TypeInst("BigInteger", 1, 2)
    /\ HasEntry /\ EntryOf = Affinity(expr.right.cls) /\ EntryOf = Affinity(expr.left.cls)
    /\ expr.resType = expr.right

\* C2: Integer + Integer is of the Integer family, Integer / Integer is
\* Numeric, Date - Date is Integer and Date - DateTime is Interval, for every
\* operand class of the named affinity.
C2_ConcreteAdaptations ==
    Built =>
        LET la == Affinity(expr.left.cls)
            ra == Affinity(expr.right.cls)
        IN  /\ (expr.op = "add" /\ la = "Integer" /\ ra = "Integer") =>
                    (expr.resOp = "add" /\ Affinity(expr.resType.cls) = "Integer")
            /\ (expr.op = "truediv" /\ la = "Integer" /\ ra = "Integer") =>
                    (expr.resOp = "truediv" /\ expr.resType.cls = "Numeric")
            /\ (expr.op = "sub" /\ la = "Date" /\ ra = "Date") =>
                    (expr.resOp = "sub" /\ expr.resType.cls = "Integer")
            /\ (expr.op = "sub" /\ la = "Date" /\ ra = "DateTime") =>
                    (expr.resOp = "sub" /\ expr.resType.cls = "Interval")

\* DATE - DATE gave an Integer
C2_Witness ==
    /\ expr.op = "sub" /\ expr.left.cls = "DATE" /\ expr.right.cls = "DATE"
    /\ expr.resType = TypeInst("Integer", 0, 0)

\* C3 as stated: for a concatenable left type, add with a concatenable or
\* null right operand gives concat_op with the left operand's own type; any
\* other operator or right operand leaves the operator as it is.
C3_ConcatLeftType ==
    (Built /\ expr.left.cls \in ConcatenableClasses) =>
        IF expr.op = "add" /\ expr.right.cls \in ConcatenableClasses \cup {"NullType"}
        THEN expr.resOp = "concat_op" /\ expr.resType = expr.left
        ELSE expr.resOp = expr.op

\* C3 as amended: the same, except that for an Enum left operand the type of
\* the concatenation is a new String of the Enum's length.
C3_ConcatLeftTypeOrString ==
    (Built /\ expr.left.cls \in ConcatenableClasses) =>
        IF expr.op = "add" /\ expr.right.cls \in ConcatenableClasses \cup {"NullType"}
        THEN /\ expr.resOp = "concat_op"
             /\ expr.left.cls /= "Enum" => expr.resType = expr.left
             /\ expr.left.cls = "Enum" => expr.resType = TypeInst("String", expr.left.cfg, 0)
        ELSE /\ expr.resOp = expr.op
             /\ (expr.op /= "concat_op" \/ expr.left.cls /= "Enum") => expr.resType = expr.left

\* String + an untyped operand concatenates, String + Integer does not
C3_Witness ==
    /\ expr.op = "add" /\ expr.left.cls = "Text" /\ expr.right.cls = "NullType"
    /\ expr.resOp = "concat_op" /\ expr.resType = expr.left

-----------------------------------------------------------------------------
(***************************************************************************)
(*                 PROPERTIES: SCHEMA-BOUND TYPES                          *)
(***************************************************************************)

\* the type object is T itself or an ARRAY whose item type is T
EntryIs(e, T) == (~e.isArray /\ e.id = T) \/ (e.isArray /\ e.item = T)

Calls == {fired.calls[i] : i \in DOMAIN fired.calls}

\* C4: with a non-empty variant mapping snapshot, T is the active
\* implementation for backend B iff B is no key and the _default entry is T
\* (or an ARRAY of T), or B is a key and its entry is T (or an ARRAY of T);
\* every snapshot has a _default entry for the backends that are no key.
C4_ResolutionRule ==
    \A c \in Calls :
        ~Falsy(c.vm) =>
            /\ "_default" \in DOMAIN c.vm.map
            /\ c.active <=>
                  \/ (fired.dialect \notin DOMAIN c.vm.map /\ EntryIs(c.vm.map["_default"], c.self))
                  \/ (fired.dialect \in DOMAIN c.vm.map /\ EntryIs(c.vm.map[fired.dialect], c.self))

\* a callback of a type held as the item of an ARRAY default fired for a
\* backend the mapping does not name, and found the type active
C4_Witness ==
    /\ fired.kind = "event"
    /\ \E c \in Calls :
          /\ ~Falsy(c.vm) /\ fired.dialect \notin DOMAIN c.vm.map
          /\ c.vm.map["_default"] = ArrayOf(c.self) /\ c.active
    /\ \E c \in Calls : ~Falsy(c.vm) /\ ~c.active

DialectNamed(n) == CHOOSE d \in Dialects : d.name = n

\* the column's type and its variants are Boolean(create_constraint=True)
\* instances, none of them inside an ARRAY
BooleanColumn ==
    /\ phase = "table"
    /\ ~column.default.isArray
    /\ \A k \in DOMAIN column.variants : ~column.variants[k].isArray
    /\ \A i \in {column.hooks[j] : j \in DOMAIN column.hooks} :
          types[i].cls = "Boolean" /\ types[i].create_constraint

\* C5: for such a column and a backend without native boolean that asks for
\* the constraint, exactly one CHECK constraint of the table has a create rule
\* that is true for the backend.
C5_ExactlyOneCheck ==
    (fired.kind = "ddl" /\ BooleanColumn
        /\ ~DialectNamed(fired.dialect).supports_native_boolean
        /\ DialectNamed(fired.dialect).non_native_boolean_check_constraint) =>
        Cardinality({i \in DOMAIN fired.calls : fired.calls[i].result}) = 1

\* the implementation the column resolves to for a backend is T
Active(T, B) ==
    IF B \in DOMAIN column.variants
    THEN EntryIs(column.variants[B], T)
    ELSE EntryIs(column.default, T)

Attached(T) == \E j \in DOMAIN column.hooks : column.hooks[j] = T

\* C6 as stated: every lifecycle callback of a type attached to a column goes
\* on to the backend implementation only if the type is the active
\* implementation for the firing backend.
C6_EveryCallbackGuarded ==
    fired.kind = "event" =>
        \A c \in Calls : (Attached(c.self) /\ c.delegated) => Active(c.self, fired.dialect)

\* C6 as amended: the callbacks registered at table attachment go on only if
\* the type is the active implementation; the metadata-level callbacks
\* registered at construction carry no variant mapping and always go on.
C6_AttachCallbacksGuarded ==
    fired.kind = "event" =>
        \A c \in Calls :
            /\ c.origin = "set_table" => (c.result <=> Active(c.self, fired.dialect))
            /\ c.origin = "set_table" => (c.delegated => c.result)
            /\ c.origin = "init" => (Falsy(c.vm) /\ c.result)

\* a table-level callback of a variant fired for a backend of which the
\* variant is not the implementation, and did nothing
C6_Witness ==
    /\ fired.kind = "event" /\ fired.target = "table"
    /\ \E c \in Calls : c.origin = "set_table" /\ Attached(c.self) /\ ~c.result /\ ~c.delegated
    /\ \E c \in Calls : c.origin = "set_table" /\ c.result /\ c.delegated

-----------------------------------------------------------------------------
(***************************************************************************)
(*                        PROPERTIES: ENUM                                 *)
(***************************************************************************)

Range(q) == {q[i] : i \in DOMAIN q}

\* the labels and the member objects the constructor was given
LabelsOf(e) == ParseIntoValues(e.arg, e.kw.omit_aliases, e.kw.values_callable)[1]
MembersOf(e) == ParseIntoValues(e.arg, e.kw.omit_aliases, e.kw.values_callable)[2]

\* a list of distinct string labels, or an enumeration class with its aliases
\* omitted
DistinctLabels(e) ==
    /\ IsDistinct(LabelsOf(e))
    /\ e.arg.kind = "class" => e.kw.omit_aliases

\* C7: for an enum definition with distinct labels, a valid member converted
\* to its database value and back is the member again, and the two lookups
\* are inverses of each other on the members and labels.
C7_RoundTrip ==
    (enum.state = "built" /\ DistinctLabels(enum)) =>
        /\ \A x \in Range(MembersOf(enum)) :
              /\ x \in DOMAIN enum.valid_lookup
              /\ enum.valid_lookup[x] \in Range(enum.enums)
              /\ enum.object_lookup[enum.valid_lookup[x]] = x
        /\ \A l \in Range(enum.enums) :
              /\ enum.object_lookup[l] \in Range(MembersOf(enum))
              /\ enum.valid_lookup[enum.object_lookup[l]] = l
        /\ (outcome.op = "bind" /\ outcome.arg \in Range(MembersOf(enum))) =>
              (outcome.res.ok /\ outcome.back.ok /\ outcome.back.value = outcome.arg)

\* a member of an enumeration class of two members was bound as its label
\* and read back
C7_Witness ==
    /\ enum.state = "built" /\ DistinctLabels(enum)
    /\ enum.arg.kind = "class" /\ Len(enum.enums) = 2
    /\ outcome.op = "bind" /\ outcome.arg = MembersOf(enum)[1]
    /\ outcome.res.value = enum.enums[1] /\ outcome.res.value /= outcome.arg
    /\ outcome.back.value = outcome.arg

\* a host value that is neither a member nor a label of the Enum
Unknown(e, v) == v \notin Range(MembersOf(e)) /\ v \notin Range(e.enums)

IsLookupError(e, r, v) ==
    ~r.ok /\ r.error = "LookupError" /\ r.value = v /\ r.name = e.name /\ r.values = e.enums

\* C8 as stated: binding a value that is no member and no label gives the
\* value itself when it is a string and validate_strings is off, and a
\* LookupError with the enum's name and values otherwise.
C8_BindUnknown ==
    (outcome.op = "bind" /\ Unknown(enum, outcome.arg)) =>
        IF outcome.arg[1] = "str" /\ ~enum.validate_strings
        THEN outcome.res = Returned(outcome.arg)
        ELSE IsLookupError(enum, outcome.res, outcome.arg)

\* C8 as amended: the same for every value other than None; None is bound as
\* None.  A label binds as itself.
C8_BindUnknownNotNone ==
    outcome.op = "bind" =>
        /\ (Unknown(enum, outcome.arg) /\ outcome.arg /= None) =>
              IF outcome.arg[1] = "str" /\ ~enum.validate_strings
              THEN outcome.res = Returned(outcome.arg)
              ELSE IsLookupError(enum, outcome.res, outcome.arg)
        /\ outcome.arg = None => outcome.res = Returned(None)
        /\ (enum.arg.kind = "strings" /\ outcome.arg \in Range(enum.enums)) =>
              outcome.res = Returned(outcome.arg)

\* with validate_strings an unknown string raised, listing the two labels
C8_Witness ==
    /\ outcome.op = "bind" /\ enum.validate_strings /\ enum.arg.kind = "strings"
    /\ Len(enum.enums) = 2 /\ outcome.arg = Str(UnknownLabel)
    /\ IsLookupError(enum, outcome.res, outcome.arg)

\* the member the Enum pairs with a label
MemberFor(e, l) ==
    MembersOf(e)[SetMax({i \in DOMAIN e.enums : i <= Len(MembersOf(e)) /\ e.enums[i] = l})]

MaxLabelLength(e) ==
    IF LabelsOf(e) = << >> THEN 0 ELSE SetMax({Len(l[2]) : l \in Range(LabelsOf(e))})

\* C10 as stated: the width is the longest label's length unless a length is
\* given; a given length below it makes construction fail, and a given length
\* of at least it is the width.  (A constructor call whose lookups could not
\* be built has no labels to measure and is left aside.)
C10_Length ==
    enum.state \notin {"none", "KeyError"} =>
        IF enum.kw.length = NoArg
        THEN enum.state = "built" /\ enum.length = MaxLabelLength(enum)
        ELSE IF enum.kw.length < MaxLabelLength(enum)
        THEN enum.state = "ValueError"
        ELSE enum.state = "built" /\ enum.length = enum.kw.length

\* C10 as amended: that holds with native_enum=False; with native_enum=True a
\* given length is ignored, and with warnings switched off internally a given
\* length is the width even below the longest label.
C10_LengthNonNative ==
    enum.state \notin {"none", "KeyError"} =>
        IF enum.kw.length = NoArg \/ enum.kw.native_enum
        THEN enum.state = "built" /\ enum.length = MaxLabelLength(enum)
        ELSE IF enum.kw.length < MaxLabelLength(enum) /\ ~enum.kw.disable_warnings
        THEN enum.state = "ValueError"
        ELSE enum.state = "built" /\ enum.length = enum.kw.length

\* a non-native Enum given a length below its longest label failed
C10_Witness ==
    /\ enum.state = "ValueError" /\ ~enum.kw.native_enum
    /\ enum.kw.length /= NoArg /\ enum.kw.length < MaxLabelLength(enum)

\* an Enum built from an enumeration class, its labels the names of the class
ClassByName(e) == e.state = "built" /\ e.arg.kind = "class" /\ ~e.kw.values_callable

\* the names of the class that are aliases, and the first-declared names
AliasNames(e) == {m.name : m \in {x \in Range(e.arg.members) : x.canon /= x.name}}
FirstNames(e) == {m.name : m \in {x \in Range(e.arg.members) : x.canon = x.name}}
FirstNameOf(e, n) == (CHOOSE m \in Range(e.arg.members) : m.name = n).canon

\* C11 as stated: a member of an enumeration class with aliases, and every
\* alias name of that member, are bound as the first-declared name of the
\* member; by default the alias names are not among the labels.
C11_AliasFirstName ==
    (ClassByName(enum) /\ AliasNames(enum) /= {}) =>
        /\ (outcome.op = "bind" /\ outcome.arg[1] = "obj"
                /\ outcome.arg[2] \in FirstNames(enum)) =>
              outcome.res = Returned(Str(outcome.arg[2]))
        /\ (outcome.op = "bind" /\ outcome.arg[1] = "str"
                /\ outcome.arg[2] \in AliasNames(enum)) =>
              outcome.res = Returned(Str(FirstNameOf(enum, outcome.arg[2])))
        /\ enum.kw.omit_aliases =>
              Range(enum.enums) = {Str(n) : n \in FirstNames(enum)}

\* C11 as amended: the member is always bound as its first-declared name; an
\* alias name given as a string is bound as the first-declared name when the
\* aliases are kept (omit_aliases=False); when they are omitted (the
\* default) the alias names are neither labels nor keys of the lookup, and an
\* alias name is bound like any unknown string.
C11_AliasFirstNameKept ==
    (ClassByName(enum) /\ AliasNames(enum) /= {}) =>
        /\ (outcome.op = "bind" /\ outcome.arg[1] = "obj"
                /\ outcome.arg[2] \in FirstNames(enum)) =>
              outcome.res = Returned(Str(outcome.arg[2]))
        /\ (outcome.op = "bind" /\ outcome.arg[1] = "str"
                /\ outcome.arg[2] \in AliasNames(enum)) =>
              IF ~enum.kw.omit_aliases
              THEN outcome.res = Returned(Str(FirstNameOf(enum, outcome.arg[2])))
              ELSE IF enum.validate_strings
              THEN IsLookupError(enum, outcome.res, outcome.arg)
              ELSE outcome.res = Returned(outcome.arg)
        /\ enum.kw.omit_aliases =>
              /\ Range(enum.enums) = {Str(n) : n \in FirstNames(enum)}
              /\ \A n \in AliasNames(enum) : Str(n) \notin DOMAIN enum.valid_lookup
        /\ ~enum.kw.omit_aliases =>
              /\ enum.enums = [i \in DOMAIN enum.arg.members |-> Str(enum.arg.members[i].name)]
              /\ \A n \in AliasNames(enum) :
                    enum.valid_lookup[Str(n)] = Str(FirstNameOf(enum, n))

\* with the aliases kept, an alias name of a class of three names was bound
\* as the first-declared name of its member
C11_Witness ==
    /\ ClassByName(enum) /\ ~enum.kw.omit_aliases /\ Len(enum.arg.members) = 3
    /\ outcome.op = "bind" /\ outcome.arg[1] = "str" /\ outcome.arg[2] \in AliasNames(enum)
    /\ outcome.res = Returned(Str(FirstNameOf(enum, outcome.arg[2])))
    /\ outcome.res.value /= outcome.arg

-----------------------------------------------------------------------------
(***************************************************************************)
(*                       PROPERTIES: PROCESSORS                            *)
(***************************************************************************)

\* the values None, True, False, 0 and 1
AcceptedBooleans == {PyNone, PyBool(TRUE), PyBool(FALSE), PyInt(0), PyInt(1)}

\* C12: the Boolean bind and literal processors accept exactly None, True,
\* False, 0 and 1; another integer raises ValueError and a value that is not
\* an integer raises TypeError; binding gives None for None, and otherwise a
\* bool on a backend with native boolean and an int 0/1 on the others.
C12_BooleanStrict ==
    proc.op \in {"boolean_bind", "boolean_literal"} =>
        IF proc.arg \in AcceptedBooleans
        THEN /\ proc.res.ok
             /\ proc.op = "boolean_bind" =>
                   proc.res.value =
                       IF proc.arg = PyNone THEN PyNone
                       ELSE IF proc.native THEN PyBool(proc.arg.num = 1)
                       ELSE PyInt(proc.arg.num)
        ELSE IF proc.arg.kind = "int"
        THEN ~proc.res.ok /\ proc.res.error = "ValueError"
        ELSE ~proc.res.ok /\ proc.res.error = "TypeError"

\* C13 as stated: for Numeric, Float and Double the result processor is none
\* for decimals wanted from a backend with native decimals, float-to-decimal
\* for decimals wanted from a backend returning floats, decimal-to-float for
\* floats wanted from a backend with native decimals, and none for floats
\* wanted from a backend returning floats.
C13_ProcessorChoice ==
    proc.op = "numeric_result" =>
        proc.res.fn =
            IF proc.type.asdecimal
            THEN IF proc.native THEN "None" ELSE "to_decimal"
            ELSE IF proc.native THEN "to_float" ELSE "None"

\* C13 as amended: that is the choice of Numeric; Float and Double with
\* asdecimal install the float-to-decimal conversion whatever the backend
\* returns, and follow the same choice without asdecimal.
C13_ProcessorChoiceNumeric ==
    proc.op = "numeric_result" =>
        proc.res.fn =
            IF proc.type.asdecimal
            THEN IF proc.native /\ proc.type.cls = "Numeric" THEN "None" ELSE "to_decimal"
            ELSE IF proc.native THEN "to_float" ELSE "None"

\* a Float with asdecimal on a backend with native decimals converts, and a
\* Numeric does not
C13_Witness ==
    /\ proc.op = "numeric_result" /\ proc.native /\ proc.type.asdecimal
    /\ proc.type.cls = "Float" /\ proc.res.fn = "to_decimal"

\* C14: a float-to-decimal conversion installed for Numeric, Float or Double
\* uses decimal_return_scale if set, otherwise scale if set, otherwise 10.
C14_DecimalReturnScale ==
    (proc.op = "numeric_result" /\ proc.res.fn = "to_decimal") =>
        proc.res.scale =
            IF proc.type.decimal_return_scale /= NoScale THEN proc.type.decimal_return_scale
            ELSE IF proc.type.scale /= NoScale THEN proc.type.scale
            ELSE 10

\* C15: JSON.NULL is bound as the serialized JSON null whatever none_as_null
\* is; None is bound as SQL NULL with none_as_null and as the serialized JSON
\* null without; the null() construct is always bound as SQL NULL.
C15_JsonNull ==
    proc.op = "json_bind" =>
        LET null == IF proc.string_process THEN StringProcess(PyStr("null"))
                    ELSE PyStr("null")
        IN  /\ proc.arg = JsonNULL => proc.res = null
            /\ proc.arg = PyNone => proc.res = IF proc.none_as_null THEN PyNone ELSE null
            /\ proc.arg = SqlNull => proc.res = PyNone

\* JSON.NULL was bound by a JSON type with none_as_null, as the text null
C15_Witness ==
    /\ proc.op = "json_bind" /\ proc.none_as_null /\ ~proc.string_process
    /\ proc.arg = JsonNULL /\ proc.res = PyStr("null")

SameFamily(a, b) ==
    /\ a.cls \in DateTimeTypeClasses \cup TimeTypeClasses
    /\ a.cls \in DateTimeTypeClasses <=> b.cls \in DateTimeTypeClasses

-----------------------------------------------------------------------------
(***************************************************************************)
(*                        PROPERTIES: INDEXING                             *)
(***************************************************************************)

IsIndexExpr(e) ==
    e.binary /\ e.operator \in {"json_getitem_op", "json_path_getitem_op"}

\* the type each cast accessor declares
DeclaredType(accessor) ==
    CASE accessor = "as_boolean" -> "Boolean" [] accessor = "as_string" -> "String"
      [] accessor = "as_integer" -> "Integer" [] accessor = "as_float" -> "Float"
      [] accessor = "as_numeric" -> "Numeric" [] accessor = "as_json" -> "JSON"

\* the accessor raised InvalidRequestError on an expression that is no index
\* expression, and on an index expression gave a clone of the declared type
CastChecked ==
    IF ~IsIndexExpr(jx.original)
    THEN ~jx.ok /\ jx.error = "InvalidRequestError" /\ jx.exprs = <<jx.original>>
    ELSE /\ jx.ok /\ jx.ret /= 1 /\ jx.ret \in DOMAIN jx.exprs
         /\ jx.exprs[jx.ret] = [jx.original EXCEPT !.type = DeclaredType(jx.accessor)]
         /\ jx.exprs[1] = jx.original

\* C16 as stated: each of as_boolean, as_string, as_integer, as_float,
\* as_numeric and as_json raises InvalidRequestError unless called on a JSON
\* index or path expression, and there returns a clone with the declared
\* type, the type of the original unchanged.
C16_CastOnlyOnIndex == jx.state = "cast" => CastChecked

\* C16 as amended: that holds for as_boolean, as_string, as_integer, as_float
\* and as_numeric; as_json returns the expression it is called on, whatever
\* the expression, without a check and without a clone.
C16_CastOnlyOnIndexButAsJson ==
    jx.state = "cast" =>
        IF jx.accessor = "as_json"
        THEN jx.ok /\ jx.ret = 1 /\ jx.exprs = <<jx.original>>
        ELSE CastChecked

\* as_integer on col[index] gave a clone of type Integer
C16_Witness ==
    /\ jx.state = "cast" /\ jx.accessor = "as_integer" /\ IsIndexExpr(jx.original)
    /\ jx.ok /\ jx.ret = 2 /\ jx.exprs[2].type = "Integer" /\ jx.exprs[1].type = "JSON"

Indexed == chain.state = "built" /\ chain.depth > 0

\* C17: an integer index on an ARRAY of dimensions N > 1 gives an ARRAY of
\* the same item type and dimensions N - 1, and on an ARRAY of dimensions 1
\* or unset the item type; a slice gives the type of the array.
C17_IndexDimensions ==
    (Indexed /\ chain.last.ok) =>
        LET b == chain.before
        IN  /\ chain.last.return_type = chain.cur
            /\ chain.given.slice => chain.cur = b
            /\ (~chain.given.slice /\ ~b.dimensions.none /\ b.dimensions.n > 1) =>
                  chain.cur = [b EXCEPT !.dimensions = Dim(b.dimensions.n - 1)]
            /\ (~chain.given.slice /\ (b.dimensions.none \/ b.dimensions.n = 1)) =>
                  chain.cur = b.item_type

\* ARRAY(Integer, dimensions=2) indexed twice with an integer is an Integer
C17_Witness ==
    /\ Indexed /\ chain.depth = 2 /\ chain.last.ok
    /\ chain.first = ArrayType(ItemType("Integer"), FALSE, Dim(2), FALSE)
    /\ chain.before = ArrayType(ItemType("Integer"), FALSE, Dim(1), FALSE)
    /\ ~chain.given.slice
    /\ chain.cur = ItemType("Integer")

\* C18: with zero_indexes an integer index i is passed on as i + 1 and a
\* slice with both bounds one higher and its step unchanged, also when a
\* bound is omitted; without zero_indexes indexes and bounds are passed on
\* unchanged; at every level of a chain of indexes.
C18_ZeroIndexes ==
    Indexed =>
        LET z == chain.before.zero_indexes
            g == chain.given
            p == chain.last.index
        IN  /\ chain.last.ok
            /\ p.slice = g.slice
            /\ g.slice =>
                  /\ p.step = g.step
                  /\ IF z
                     THEN /\ g.start /= PyNone => p.start = PyInt(g.start.num + 1)
                          /\ g.stop /= PyNone => p.stop = PyInt(g.stop.num + 1)
                     ELSE p.start = g.start /\ p.stop = g.stop
            /\ ~g.slice => p.i = PyInt(g.i.num + (IF z THEN 1 ELSE 0))

WellShaped(t) ==
    t.cls = "ARRAY" =>
        /\ t.dimensions.none \/ t.dimensions.n >= 1
        /\ t.item_type.cls /= "ARRAY"

\* C19: every ARRAY type constructed, or reached from a constructed one by
\* integer indexes and slices, has dimensions unset or at least 1 and an
\* item type that is not an ARRAY.
C19_ArrayShape ==
    chain.state = "built" => WellShaped(chain.first) /\ WellShaped(chain.cur)

-----------------------------------------------------------------------------
(***************************************************************************)
(*            PROPERTIES: ATTACHMENT OF SCHEMA-BOUND TYPES                 *)
(***************************************************************************)

\* the type objects attached to the column: its own type under "_default"
\* and the values of its variant mapping
EntryKeys == {"_default"} \cup DOMAIN column.variants
EntryAt(k) == IF k = "_default" THEN column.default ELSE column.variants[k]

\* the table-attach hooks of the column that are T's
HookCount(T) == Cardinality({j \in DOMAIN column.hooks : column.hooks[j] = T})

\* the callbacks T registered from origin ("init" or "set_table") on a target
\* for an event
ListenerCount(T, origin, target, event) ==
    Cardinality({i \in DOMAIN listeners :
                    /\ listeners[i].self = T /\ listeners[i].origin = origin
                    /\ listeners[i].target = target /\ listeners[i].event = event})

Events == {"before_create", "after_drop"}

\* C26: before the column is attached to a table there is no CHECK
\* constraint and no callback other than the metadata-level callbacks a type
\* constructed with a metadata registered at construction; attaching a type
\* to a column registers one table-attach hook for it and nothing else.
C26_TwoPhase ==
    /\ phase \in {"new", "constructed", "column"} =>
          /\ constraints = << >>
          /\ \A i \in DOMAIN listeners :
                /\ listeners[i].origin = "init" /\ listeners[i].target = "metadata"
                /\ types[listeners[i].self].metadata
    /\ phase = "column" =>
          /\ \A k \in EntryKeys : ~EntryAt(k).isArray => HookCount(EntryAt(k).id) >= 1
          /\ (\A k \in EntryKeys : ~EntryAt(k).isArray) =>
                Len(column.hooks) = Cardinality(EntryKeys)
    /\ (\E i \in DOMAIN listeners : listeners[i].origin = "set_table") => phase = "table"
    /\ constraints /= << >> => phase = "table"

\* a column holds two types, one of them constructed with a metadata and one
\* asking for a CHECK constraint, and is not attached to a table yet
C26_Witness ==
    /\ phase = "column"
    /\ Len(column.hooks) = 2 /\ ~column.default.isArray
    /\ listeners /= << >>
    /\ \E j \in DOMAIN column.hooks : types[column.hooks[j]].create_constraint

\* the callbacks of T from table attachment are on the table, are on the
\* metadata if and only if T has no metadata of its own, and carry the
\* variant mapping of the column
RegistersAtTable(T) ==
    /\ \A ev \in Events : ListenerCount(T, "set_table", "table", ev) >= 1
    /\ \A ev \in Events :
          (ListenerCount(T, "set_table", "metadata", ev) >= 1) <=> ~types[T].metadata
    /\ types[T].metadata => \A ev \in Events : ListenerCount(T, "init", "metadata", ev) = 1
    /\ \A i \in DOMAIN listeners :
          (listeners[i].self = T /\ listeners[i].origin = "set_table") =>
              listeners[i].vm = VariantMappingForSetTable(column)

\* C27 as stated: every schema-bound type with event creation on that is
\* attached to a table registers before_create and after_drop on the table,
\* and on the metadata if and only if it has no metadata of its own, each
\* callback with the variant mapping of the column.
C27_TableCallbacks ==
    phase = "table" =>
        \A T \in TypeIds : (HookCount(T) > 0 /\ types[T].create_events) => RegistersAtTable(T)

\* C27 as amended: that holds for an Enum; a Boolean registers no callback at
\* table attachment, whatever its event creation flag is.
C27_TableCallbacksOfEnum ==
    phase = "table" =>
        \A T \in TypeIds :
            /\ (HookCount(T) > 0 /\ types[T].create_events /\ types[T].cls = "Enum") =>
                  RegistersAtTable(T)
            /\ (HookCount(T) > 0 /\ types[T].cls = "Boolean") =>
                  \A i \in DOMAIN listeners : listeners[i].self /= T

\* a column with a variant, of an Enum with a metadata and an Enum without,
\* is attached to a table
C27_Witness ==
    /\ phase = "table"
    /\ DOMAIN column.variants /= {}
    /\ \E T, U \in TypeIds :
          /\ HookCount(T) > 0 /\ HookCount(U) > 0
          /\ types[T].cls = "Enum" /\ types[T].metadata /\ ~types[U].metadata

\* C28: a Boolean attached to a table has a CHECK constraint if and only if
\* create_constraint is set; the constraint's name is the type's name, or
\* _NONE_NAME without one; its create rule is true for a backend exactly when
\* the Boolean is the implementation for the backend, the backend has no
\* native boolean and asks for the check constraint.
C28_BooleanCheck ==
    /\ phase = "table" =>
          \A T \in TypeIds : (types[T].cls = "Boolean" /\ HookCount(T) > 0) =>
              /\ (\E i \in DOMAIN constraints : constraints[i].self = T)
                    <=> types[T].create_constraint
              /\ \A i \in DOMAIN constraints : constraints[i].self = T =>
                    /\ constraints[i].cls = "Boolean"
                    /\ constraints[i].name =
                          (IF types[T].name = NameNone THEN NONE_NAME ELSE types[T].name)
    /\ fired.kind = "ddl" =>
          \A c \in Calls : types[c.self].cls = "Boolean" =>
              (c.result <=>
                  /\ Active(c.self, fired.dialect)
                  /\ ~DialectNamed(fired.dialect).supports_native_boolean
                  /\ DialectNamed(fired.dialect).non_native_boolean_check_constraint)

\* CREATE TABLE was compiled for a column with a variant whose types are a
\* named Boolean with a constraint, which is created, and a Boolean without
C28_Witness ==
    /\ fired.kind = "ddl"
    /\ DOMAIN column.variants /= {}
    /\ \E i \in DOMAIN constraints : constraints[i].name = "ck_flag"
    /\ \E c \in Calls : c.result
    /\ \E T \in TypeIds :
          HookCount(T) > 0 /\ types[T].cls = "Boolean" /\ ~types[T].create_constraint

\* C29: every table-attach hook of the column is a schema-bound type's, and
\* a schema-bound type has one hook for every type object of the column that
\* is the type itself or an ARRAY of it: an ARRAY forwards the attachment to
\* a schema-bound item type once, and an ARRAY of another item type forwards
\* nothing.
C29_ArrayForwardsOnce ==
    phase \in {"column", "table"} =>
        /\ \A j \in DOMAIN column.hooks : IsSchemaEventTarget(column.hooks[j])
        /\ \A T \in TypeIds :
              HookCount(T) = Cardinality({k \in EntryKeys : EntryIs(EntryAt(k), T)})

\* the column's type is an ARRAY of a schema-bound type, which has one hook,
\* and a variant is an ARRAY of a type that is not schema-bound
C29_Witness ==
    /\ phase = "column"
    /\ column.default.isArray /\ IsSchemaEventTarget(column.default.item)
    /\ HookCount(column.default.item) = 1
    /\ \E k \in DOMAIN column.variants :
          column.variants[k].isArray /\ ~IsSchemaEventTarget(column.variants[k].item)
    /\ Len(column.hooks) = 1

-----------------------------------------------------------------------------
(***************************************************************************)
(*               PROPERTIES: THE LIFE OF A TYPE INSTANCE                   *)
(***************************************************************************)

Alive == life.state = "built"

\* C21: two calls of a processor made of a type with equal inputs give equal
\* outputs, whatever was done with the type between the calls.
C21_ProcessorPure ==
    Alive =>
        \A i, j \in DOMAIN life.calls :
            life.calls[i].arg = life.calls[j].arg => life.calls[i].res = life.calls[j].res

\* C22 as stated: no operation after construction changes an attribute of the
\* type instance.
C22_Immutable == Alive => life.typ = life.orig

\* C22 as amended: no operation changes an attribute other than schema and
\* none_as_null; the schema of an Enum is changed by table attachment, when
\* inherit_schema is set or the type has a metadata with a schema and no
\* schema of its own, and none_as_null by setting should_evaluate_none.
C22_ImmutableButSchemaAndNoneAsNull ==
    Alive =>
        /\ IsSchemaType(life.typ) =>
              /\ [life.typ EXCEPT !.schema = life.orig.schema] = life.orig
              /\ life.typ.schema /= life.orig.schema =>
                    /\ life.typ.cls = "Enum" /\ life.phase = "table"
                    /\ life.orig.inherit_schema
                          \/ (life.orig.metadata /\ life.orig.metadata_schema /= SchemaNone
                                /\ life.orig.schema = SchemaNone)
        /\ life.typ.cls = "JSON" =>
              /\ [life.typ EXCEPT !.none_as_null = life.orig.none_as_null] = life.orig
              /\ life.typ /= life.orig => life.set
        /\ life.typ.cls = "ARRAY" => life.typ = life.orig

\* an Enum with a name was attached to a table, which changed its schema,
\* after a copy of it was made, and an event of the table fired
C22_Witness ==
    /\ Alive /\ life.typ.cls = "Enum" /\ life.phase = "table"
    /\ life.typ.schema /= life.orig.schema /\ life.typ.name = "mood"
    /\ life.derived /= NoDerived /\ life.fired

\* the schema the stated precedence gives
SchemaByPrecedence(t, table_schema) ==
    IF t.schema /= SchemaNone THEN t.schema
    ELSE IF t.metadata /\ t.metadata_schema /= SchemaNone THEN t.metadata_schema
    ELSE IF t.inherit_schema THEN table_schema
    ELSE SchemaNone

DerivedCount(origin, target, event) ==
    Cardinality({i \in DOMAIN life.derived.listeners :
                    /\ life.derived.listeners[i].origin = origin
                    /\ life.derived.listeners[i].target = target
                    /\ life.derived.listeners[i].event = event})

\* C30: a type made by adapt() without _create_events has event creation off
\* and registers no callback, at construction or at table attachment; a type
\* made by copy() has event creation on and, attached to a table, has
\* registered what a new type registers: an Enum the table callbacks, and
\* the metadata callbacks once, at construction with a metadata of its own
\* and at table attachment without; a Boolean none.
C30_AdaptDisablesEvents ==
    (Alive /\ life.derived /= NoDerived) =>
        /\ (life.derived.how = "adapt" /\ life.derived.kw = "unset") =>
              ~life.derived.typ.create_events /\ life.derived.listeners = << >>
        /\ life.derived.how = "copy" =>
              /\ life.derived.typ.create_events
              /\ (life.derived.attached /\ life.derived.typ.cls = "Enum") =>
                    \A ev \in Events :
                        /\ DerivedCount("set_table", "table", ev) = 1
                        /\ DerivedCount("set_table", "metadata", ev) =
                              (IF life.derived.typ.metadata THEN 0 ELSE 1)
                        /\ DerivedCount("init", "metadata", ev) =
                              (IF life.derived.typ.metadata THEN 1 ELSE 0)
              /\ life.derived.typ.cls = "Boolean" => life.derived.listeners = << >>

\* an Enum that registered callbacks at its own table attachment was adapted
\* without _create_events, and the type made was attached to a table
C30_Witness ==
    /\ Alive /\ life.typ.cls = "Enum" /\ life.typ.create_events
    /\ life.phase = "table" /\ life.listeners /= << >>
    /\ life.derived /= NoDerived
    /\ life.derived.how = "adapt" /\ life.derived.kw = "unset" /\ life.derived.attached

-----------------------------------------------------------------------------
(***************************************************************************)
(*                  PROPERTIES: THE PROCESSOR CACHE                        *)
(***************************************************************************)

\* what the processor a single caller gets does with a value: the backend's
\* Integer processor for an int, its String processor for a str, when the
\* backend has one, and the value itself otherwise
ExpectedBind(backend, value) ==
    IF backend.integer /= NoneFn /\ value.kind \in {"int", "bool"}
    THEN Apply(backend.integer.fn, value)
    ELSE IF backend.string /= NoneFn /\ value.kind = "str"
    THEN Apply(backend.string.fn, value)
    ELSE value

BehavesAsExpected(p) ==
    /\ p.fn = "process"
    /\ \A v \in ElementValues : ElementProcess(p, v) = ExpectedBind(cache.backend, v)

\* C23: in every interleaving of the callers, the processor a caller was
\* handed and the processor in the cache behave as the processor of a single
\* caller; no caller is handed a missing processor, and when every caller has
\* returned the cache holds the processor.
C23_RaceSafe ==
    cache.state = "running" =>
        /\ \A c \in Callers : cache.pc[c] = "done" => BehavesAsExpected(cache.ret[c])
        /\ CacheHit(cache.memos, "element") => BehavesAsExpected(cache.memos["element"])
        /\ (\A c \in Callers : cache.pc[c] = "done") => CacheHit(cache.memos, "element")

\* two callers missed the cache, both computed the processor of a backend
\* with an Integer and a String processor and installed it, and returned
C23_Witness ==
    /\ cache.state = "running"
    /\ cache.backend.integer /= NoneFn /\ cache.backend.string /= NoneFn
    /\ \A c \in Callers : cache.pc[c] = "done"
    /\ cache.installs >= 2

-----------------------------------------------------------------------------
(***************************************************************************)
(*               PROPERTIES: PROCESSORS CALLED WITH None                   *)
(***************************************************************************)

\* C25: the bind processor of Boolean, Enum (with validate_strings as well),
\* the binary types, Interval and PickleType called with None returns None
\* and does not raise; that of JSON returns None with none_as_null and the
\* serialized JSON null without; the result processor of Enum, the binary
\* types, Interval, PickleType and JSON called with None returns None.
C25_NonePassesThrough ==
    /\ (proc.op = "bind_call" /\ proc.arg = PyNone) =>
          /\ proc.res.ok
          /\ (proc.type.cls = "JSON" /\ ~proc.type.opt) =>
                proc.res.value.text = "null" /\ proc.res.value /= PyNone
          /\ ~(proc.type.cls = "JSON" /\ ~proc.type.opt) => proc.res.value = PyNone
    /\ (proc.op = "result_call" /\ proc.arg = PyNone) =>
          proc.res.ok /\ proc.res.value = PyNone

\* None was bound with the processor of a binary type of a backend with a
\* dbapi, whose processor wraps every other value
C25_Witness ==
    /\ proc.op = "bind_call" /\ proc.arg = PyNone
    /\ proc.type.cls \in BinaryTypeClasses /\ proc.type.flag
    /\ proc.res.ok /\ proc.res.value = PyNone

=============================================================================
